---- MODULE Spec2Model ----
(***************************************************************************)
(* The pose-sequence matching engine of the "disguise" game:               *)
(* SequenceMatcher (one per enemy reference sequence) and the per-tick     *)
(* arbitration of Game.checkPlayerMatches over the Player's matching       *)
(* state.  Physics, rendering and the enemies' own animation playback do   *)
(* not feed the matching decision and are left out.                        *)
(*                                                                         *)
(* Numbers.  confidenceScore is an IEEE double in the program.  It is      *)
(* held here in units of 1/10000, so that 0.25 is 2500 and 0.1 is 1000.    *)
(* 0.25 and its multiples are exact doubles and sums of them stay exact;   *)
(* 0.1 is not, so every result that involves it carries a rounding error   *)
(* of a few units in the last place.  The last decimal digit of the scaled *)
(* value stands for the sign of that error (-1, 0, +1 around the nominal   *)
(* multiple of 0.05): an inexact operation yields any of the three, which  *)
(* covers whatever the double arithmetic produces at a comparison with a   *)
(* threshold the nominal value ties with.                                  *)
(***************************************************************************)
EXTENDS Integers, Sequences, FiniteSets, TLC

VARIABLES
    enemies,                \* Game.enemies: id -> [bodyColor, frames]
    states,                 \* Player.states, the live pose
    blinkTimer,             \* Player.blinkTimer
    moveHistoryLength,      \* Player.moveHistory.length
    moveHistory,            \* Player.moveHistory, the entries, where a specification follows them
    frameNumber,            \* Game.frameNumber
    frameCounter,           \* Player.frameCounter
    sequenceMatchers,       \* Player.sequenceMatchers: id -> matcher fields
    currentMatchingEnemy,   \* Player.currentMatchingEnemy (enemy id or null)
    confirmedMatchEnemy,    \* Player.confirmedMatchEnemy (enemy id or null)
    graceFrames,            \* Player.graceFrames
    gracePeriod,            \* Player.gracePeriod
    bodyColor,              \* Player.bodyColor (headColor is always set with it)
    trackedFrames,          \* history: id -> updates of the matcher since the search seeded it
    mismatchRun,            \* history: consecutive rejected updates of a confirmed matcher
    runGrace,               \* history: graceFrames when the current run of rejections began
    shown,                  \* history: id -> the arbitrator was given a pose equal to an active frame of id
    arbitration,            \* history: the locals of the latest checkPlayerMatches (or updateMatch) call
    returned,               \* history: the latest direct call of a matcher method and what it returned
    pc,                     \* the position of the frame callback (gameLoop), "idle" between callbacks
    cursor                  \* driver: frames replayed to a lone matcher, or the script's offset

vars == <<enemies, states, blinkTimer, moveHistoryLength, moveHistory, frameNumber,
          frameCounter,
          sequenceMatchers, currentMatchingEnemy, confirmedMatchEnemy, graceFrames,
          gracePeriod, bodyColor, trackedFrames, mismatchRun, runGrace, shown, arbitration,
          returned, pc, cursor>>

-----------------------------------------------------------------------------
\* Bounds of the model.

\* Longest reference sequence the general specification draws.
MaxSeqLen == 2

\* Ticks explored by the general specification.
MaxFrames == 8

\* Largest grace period the grace specification draws, and its ticks.
MaxGracePeriod == 2
MaxGraceFrames == 12

\* Longest reference sequence replayed to a lone matcher.
MaxReplayLen == 5

\* Ticks of the scripted sessions against the shipped enemies.
MaxGameFrames == 310

-----------------------------------------------------------------------------
\* MATCHING_CONFIG, in units of 1/10000 for the scores.

CONFIDENCE_MATCH == 2500
CONFIDENCE_DECAY_ACTIVE == 2500
CONFIDENCE_DECAY_MIXED == 1000
CONFIDENCE_DECAY_IDLE == 0
QUALITY_THRESHOLD_BUILD == 1000
QUALITY_THRESHOLD_CONFIRM == 3500
GRACE_PERIOD == 60
MAX_HISTORY_LENGTH == 120

\* The score 1 of Math.min(1, ...), in the same unit.
One == 10000

\* moveHistory.length < 5: the warm-up guard of checkPlayerMatches.
WarmUp == 5

\* blink(): blinkTimer = 15.
BlinkFrames == 15

\* lastMatchFrame = -Infinity.
NegInfinity == -1

null == "null"
originalColor == "#00ffcc"

-----------------------------------------------------------------------------
\* Poses.

Pose(la, ra, ll, rl, lamp) ==
    [leftArmRaised |-> la, rightArmRaised |-> ra, leftLegRaised |-> ll,
     rightLegRaised |-> rl, lampBlinking |-> lamp]

Idle == Pose(FALSE, FALSE, FALSE, FALSE, FALSE)
LeftArm == Pose(TRUE, FALSE, FALSE, FALSE, FALSE)
RightLeg == Pose(FALSE, FALSE, FALSE, TRUE, FALSE)
BothArms == Pose(TRUE, TRUE, FALSE, FALSE, FALSE)

\* null or undefined where a pose is expected: what !state is true of.
NoPose == [absent |-> TRUE]

\* A comparison that looks at the lamp as well.
statesEqualWithLamp(state1, state2) ==
    /\ state1 # NoPose
    /\ state2 # NoPose
    /\ state1 = state2

\* An activity test that takes a missing pose for an active one.
isActiveStateOrAbsent(state) ==
    \/ state = NoPose
    \/ state.leftArmRaised
    \/ state.rightArmRaised
    \/ state.leftLegRaised
    \/ state.rightLegRaised

\* An activity test that takes a lit lamp for a raised limb.
isActiveStateWithLamp(state) ==
    /\ state # NoPose
    /\ \/ state.leftArmRaised
       \/ state.rightArmRaised
       \/ state.leftLegRaised
       \/ state.rightLegRaised
       \/ state.lampBlinking

statesEqual(state1, state2) ==
    /\ state1 # NoPose
    /\ state2 # NoPose
    /\ state1.leftArmRaised = state2.leftArmRaised
    /\ state1.rightArmRaised = state2.rightArmRaised
    /\ state1.leftLegRaised = state2.leftLegRaised
    /\ state1.rightLegRaised = state2.rightLegRaised

isActiveState(state) ==
    /\ state # NoPose
    /\ \/ state.leftArmRaised
       \/ state.rightArmRaised
       \/ state.leftLegRaised
       \/ state.rightLegRaised

-----------------------------------------------------------------------------
\* Double arithmetic on scores.

Min(a, b) == IF a < b THEN a ELSE b
Max(a, b) == IF a > b THEN a ELSE b

\* The multiple of 0.05 a score stands for.
Nominal(c) == ((c + 1) \div 100) * 100

\* A double that binary arithmetic with 0.25 keeps exact.
Exact(c) == c % 2500 = 0

\* c + d in double arithmetic: the possible results.
FloatAdd(c, d) ==
    IF d = 0 THEN {c}
    ELSE IF Exact(c) /\ Exact(d) THEN {c + d}
    ELSE LET r == Nominal(c) + d IN {r - 1, r, r + 1}

\* Math.min(1, confidenceScore + CONFIDENCE_MATCH).
Reward(c) == { Min(One, x) : x \in FloatAdd(c, CONFIDENCE_MATCH) }

\* Math.max(0, c - d) written without the clamp.
DecayUnclamped(c, d) == FloatAdd(c, -d)

\* A decay that subtracts the penalty twice.
DecayTwice(c, d) == { Max(0, y) : y \in UNION { FloatAdd(x, -d) : x \in FloatAdd(c, -d) } }

\* A decay that takes nothing off.
DecayNothing(c, d) == {c}

\* Math.max(0, confidenceScore - d) of the three decay branches.
Decay(c, d) == { Max(0, x) : x \in FloatAdd(c, -d) }

-----------------------------------------------------------------------------
\* SequenceMatcher.  The reference frames live with the enemy (the matcher
\* keeps a reference to the same array); sequence index i of the program is
\* index i + 1 here.

\* A reset that leaves the position alone.
resetKeepPosition(m) ==
    [m EXCEPT !.cyclesCompleted = 0, !.confidenceScore = 0,
              !.lastMatchFrame = NegInfinity, !.isActive = FALSE]

\* A reset that leaves the cycle counter alone.
resetKeepCycles(m) ==
    [m EXCEPT !.matchPosition = 0, !.confidenceScore = 0,
              !.lastMatchFrame = NegInfinity, !.isActive = FALSE]

\* A reset that leaves the confidence alone.
resetKeepConfidence(m) ==
    [m EXCEPT !.matchPosition = 0, !.cyclesCompleted = 0,
              !.lastMatchFrame = NegInfinity, !.isActive = FALSE]

\* The fields the constructor sets, which are also what reset() restores.
NewMatcher ==
    [matchPosition |-> 0, cyclesCompleted |-> 0, confidenceScore |-> 0,
     lastMatchFrame |-> NegInfinity, isActive |-> FALSE]

reset(m) ==
    [m EXCEPT !.matchPosition = 0, !.cyclesCompleted = 0, !.confidenceScore = 0,
              !.lastMatchFrame = NegInfinity, !.isActive = FALSE]

\* A start-position search that accepts idle frames as well.
findBestStartingPositionAnyPose(sequence, playerState) ==
    LET hits == { i \in 0..(Len(sequence) - 1) : statesEqual(playerState, sequence[i + 1]) }
    IN  IF hits = {} THEN -1
        ELSE CHOOSE i \in hits : \A j \in hits : i <= j

\* The loop of findBestStartingPosition: the indices it would return at,
\* of which it returns the first it meets.
StartHits(sequence, playerState) ==
    { i \in 0..(Len(sequence) - 1) :
        isActiveState(sequence[i + 1]) /\ statesEqual(playerState, sequence[i + 1]) }

findBestStartingPosition(sequence, playerState) ==
    IF ~isActiveState(playerState) THEN -1
    ELSE LET hits == StartHits(sequence, playerState)
         IN  IF hits = {} THEN -1
             ELSE CHOOSE i \in hits : \A j \in hits : i <= j

\* An updateMatch that rejects a frame where exactly one side is active.
updateMatchRejectsJitter(m, sequence, playerState, frameNumberArg) ==
    LET expectedState == sequence[m.matchPosition + 1] IN
    IF statesEqual(playerState, expectedState)
    THEN { [m |-> [m EXCEPT !.confidenceScore = c,
                            !.lastMatchFrame = frameNumberArg,
                            !.isActive = TRUE],
            matched |-> TRUE] :
           c \in Reward(m.confidenceScore) }
    ELSE IF ~isActiveState(playerState) /\ ~isActiveState(expectedState)
    THEN { [m |-> [m EXCEPT !.lastMatchFrame = frameNumberArg], matched |-> TRUE] }
    ELSE IF isActiveState(playerState) /\ isActiveState(expectedState)
    THEN { [m |-> [m EXCEPT !.confidenceScore = c, !.isActive = FALSE],
            matched |-> FALSE] :
           c \in Decay(m.confidenceScore, CONFIDENCE_DECAY_ACTIVE) }
    ELSE { [m |-> [m EXCEPT !.confidenceScore = c], matched |-> FALSE] :
           c \in Decay(m.confidenceScore, CONFIDENCE_DECAY_MIXED) }

\* An updateMatch that stamps lastMatchFrame on every call that returns true.
updateMatchStampsJitter(m, sequence, playerState, frameNumberArg) ==
    LET expectedState == sequence[m.matchPosition + 1] IN
    IF statesEqual(playerState, expectedState)
    THEN { [m |-> [m EXCEPT !.confidenceScore = c,
                            !.lastMatchFrame = frameNumberArg,
                            !.isActive = TRUE],
            matched |-> TRUE] :
           c \in Reward(m.confidenceScore) }
    ELSE IF ~isActiveState(playerState) /\ ~isActiveState(expectedState)
    THEN { [m |-> [m EXCEPT !.lastMatchFrame = frameNumberArg], matched |-> TRUE] }
    ELSE IF isActiveState(playerState) /\ isActiveState(expectedState)
    THEN { [m |-> [m EXCEPT !.confidenceScore = c, !.isActive = FALSE],
            matched |-> FALSE] :
           c \in Decay(m.confidenceScore, CONFIDENCE_DECAY_ACTIVE) }
    ELSE { [m |-> [m EXCEPT !.confidenceScore = c,
                            !.lastMatchFrame = frameNumberArg],
            matched |-> TRUE] :
           c \in Decay(m.confidenceScore, CONFIDENCE_DECAY_MIXED) }

\* updateMatch: the possible outcomes [m, matched] (one, unless the score is
\* an inexact double).
updateMatch(m, sequence, playerState, frameNumberArg) ==
    LET expectedState == IF m.matchPosition < Len(sequence)
                         THEN sequence[m.matchPosition + 1]
                         ELSE NoPose  \* undefined: past the end of the array
    IN
    IF statesEqual(playerState, expectedState)
    THEN { [m |-> [m EXCEPT !.confidenceScore = c,
                            !.lastMatchFrame = frameNumberArg,
                            !.isActive = TRUE],
            matched |-> TRUE] :
           c \in Reward(m.confidenceScore) }
    ELSE IF ~isActiveState(playerState) /\ ~isActiveState(expectedState)
    THEN { [m |-> [m EXCEPT !.lastMatchFrame = frameNumberArg,
                            !.confidenceScore = c],
            matched |-> TRUE] :
           c \in Decay(m.confidenceScore, CONFIDENCE_DECAY_IDLE) }
    ELSE IF isActiveState(playerState) /\ isActiveState(expectedState)
    THEN { [m |-> [m EXCEPT !.confidenceScore = c,
                            !.isActive = FALSE],
            matched |-> FALSE] :
           c \in Decay(m.confidenceScore, CONFIDENCE_DECAY_ACTIVE) }
    ELSE { [m |-> [m EXCEPT !.confidenceScore = c],
            matched |-> TRUE] :
           c \in Decay(m.confidenceScore, CONFIDENCE_DECAY_MIXED) }

\* An advance that wraps one position late.
advancePositionLateWrap(m, sequenceLength) ==
    IF m.matchPosition + 1 > sequenceLength
    THEN [m EXCEPT !.matchPosition = 0, !.cyclesCompleted = m.cyclesCompleted + 1]
    ELSE [m EXCEPT !.matchPosition = m.matchPosition + 1]

\* An advance that wraps without counting the cycle.
advancePositionNoCycle(m, sequenceLength) ==
    IF m.matchPosition + 1 >= sequenceLength
    THEN [m EXCEPT !.matchPosition = 0]
    ELSE [m EXCEPT !.matchPosition = m.matchPosition + 1]

\* An advance that counts a cycle one position early.
advancePositionEarlyWrap(m, sequenceLength) ==
    IF m.matchPosition + 2 >= sequenceLength
    THEN [m EXCEPT !.matchPosition = 0, !.cyclesCompleted = m.cyclesCompleted + 1]
    ELSE [m EXCEPT !.matchPosition = m.matchPosition + 1]

advancePosition(m, sequenceLength) ==
    IF m.matchPosition + 1 >= sequenceLength
    THEN [m EXCEPT !.matchPosition = 0, !.cyclesCompleted = m.cyclesCompleted + 1]
    ELSE [m EXCEPT !.matchPosition = m.matchPosition + 1]

getMatchQuality(m) == m.confidenceScore

isFullCycleComplete(m) == m.cyclesCompleted > 0 /\ m.matchPosition = 0

\* An update that advances the matcher whatever updateMatch returned.
updateAndAdvanceAlways(m, sequence, playerState, frameNumberArg) ==
    { [m |-> advancePosition(r.m, Len(sequence)), matched |-> r.matched] :
      r \in updateMatch(m, sequence, playerState, frameNumberArg) }

\* updateMatch, then advancePosition if it matched: what every branch of
\* checkPlayerMatches does with the matcher it updates.
updateAndAdvance(m, sequence, playerState, frameNumberArg) ==
    { [m |-> IF r.matched THEN advancePosition(r.m, Len(sequence)) ELSE r.m,
       matched |-> r.matched] :
      r \in updateMatch(m, sequence, playerState, frameNumberArg) }

-----------------------------------------------------------------------------
\* Game.checkPlayerMatches, after the warm-up guard.

EnemyIds == { enemies[i].id : i \in 1..Len(enemies) }

EnemyById(id) == CHOOSE e \in { enemies[i] : i \in 1..Len(enemies) } : e.id = id

\* Lines 657-664: a matcher for every enemy that has none yet.
InitMatchers(matchers) ==
    [id \in EnemyIds |-> IF id \in DOMAIN matchers THEN matchers[id] ELSE NewMatcher]

\* A tracked update that also resets the matchers it does not track.
TrackedUpdateResetOthers(matchers, id, playerState, frame) ==
    { [matchers |-> [other \in DOMAIN matchers |->
                        IF other = id THEN r.m ELSE reset(matchers[other])],
       bestEnemy |-> id,
       bestMatchQuality |-> getMatchQuality(r.m),
       matched |-> r.matched,
       hits |-> {}] :
      r \in updateAndAdvance(matchers[id], EnemyById(id).frames, playerState, frame) }

\* Lines 670-677 and 678-686: only the tracked enemy's matcher is updated.
TrackedUpdate(matchers, id, playerState, frame) ==
    { [matchers |-> [matchers EXCEPT ![id] = r.m],
       bestEnemy |-> id,
       bestMatchQuality |-> getMatchQuality(r.m),
       matched |-> r.matched,
       hits |-> {}] :
      r \in updateAndAdvance(matchers[id], EnemyById(id).frames, playerState, frame) }

\* A comparison under which a later enemy takes a tie.
isBetterOrEqual(quality, bestMatchQuality) == quality >= bestMatchQuality

\* Line 703, quality > bestMatchQuality.
isBetter(quality, bestMatchQuality) == quality > bestMatchQuality

RECURSIVE SearchFrom(_, _, _, _)
\* Lines 689-708: the loop over this.enemies from index i on; acc holds the
\* matchers, bestEnemy and bestMatchQuality so far (and the enemies that
\* yielded a start position).
SearchFrom(i, acc, playerState, frame) ==
    IF i > Len(enemies) THEN {acc}
    ELSE LET enemy == enemies[i]
             matcher == acc.matchers[enemy.id]
             startPos == findBestStartingPosition(enemy.frames, playerState)
         IN  IF startPos = -1 THEN SearchFrom(i + 1, acc, playerState, frame)
             ELSE UNION {
                 LET quality == getMatchQuality(r.m)
                     better == isBetter(quality, acc.bestMatchQuality)
                 IN  SearchFrom(i + 1,
                         [matchers |-> [acc.matchers EXCEPT ![enemy.id] = r.m],
                          bestEnemy |-> IF better THEN enemy.id ELSE acc.bestEnemy,
                          bestMatchQuality |-> IF better THEN quality
                                               ELSE acc.bestMatchQuality,
                          matched |-> acc.matched,
                          hits |-> acc.hits \cup {enemy.id}],
                         playerState, frame) :
                 r \in updateAndAdvance([reset(matcher) EXCEPT !.matchPosition = startPos],
                                        enemy.frames, playerState, frame) }

\* An update phase that searches again while a candidate is building.
UpdatePhaseSearchWhileBuilding(matchers, current, confirmed, playerState, frame) ==
    IF confirmed # null THEN TrackedUpdate(matchers, confirmed, playerState, frame)
    ELSE SearchFrom(1, [matchers |-> matchers, bestEnemy |-> null,
                        bestMatchQuality |-> 0, matched |-> TRUE, hits |-> {}],
                    playerState, frame)

\* Lines 666-709: the update phase.
UpdatePhase(matchers, current, confirmed, playerState, frame) ==
    IF confirmed # null THEN TrackedUpdate(matchers, confirmed, playerState, frame)
    ELSE IF current # null THEN TrackedUpdate(matchers, current, playerState, frame)
    ELSE SearchFrom(1, [matchers |-> matchers, bestEnemy |-> null,
                        bestMatchQuality |-> 0, matched |-> TRUE, hits |-> {}],
                    playerState, frame)

\* A grace test made before the frame is counted.
inGraceLate(grace, period) == grace <= period

\* A grace test that gives up one frame early.
inGraceEarly(grace, period) == grace + 1 < period

\* Line 724, graceFrames < gracePeriod, on the incremented counter.
inGrace(grace, period) == grace < period

\* A confirmation test that does not look at the cycle counter.
cycleCompletedAlways(m) == m.cyclesCompleted >= 0

\* Line 743, matcher.cyclesCompleted > 0.
cycleCompleted(m) == m.cyclesCompleted > 0

\* A transition that keeps an unconfirmed candidate whose quality has fallen.
TransitionBuildingGrace(u, current, confirmed, grace, period, color) ==
    IF confirmed # null
    THEN IF u.bestEnemy = confirmed /\ u.bestMatchQuality > QUALITY_THRESHOLD_CONFIRM
         THEN [matchers |-> u.matchers, current |-> current, confirmed |-> confirmed,
               grace |-> 0, color |-> EnemyById(confirmed).bodyColor]
         ELSE IF inGrace(grace + 1, period)
         THEN [matchers |-> u.matchers, current |-> current, confirmed |-> confirmed,
               grace |-> grace + 1, color |-> EnemyById(confirmed).bodyColor]
         ELSE [matchers |-> [id \in DOMAIN u.matchers |-> reset(u.matchers[id])],
               current |-> null, confirmed |-> null,
               grace |-> grace + 1, color |-> originalColor]
    ELSE IF u.bestEnemy # null /\ u.bestMatchQuality > QUALITY_THRESHOLD_BUILD
    THEN IF cycleCompleted(u.matchers[u.bestEnemy])
         THEN [matchers |-> u.matchers, current |-> u.bestEnemy,
               confirmed |-> u.bestEnemy, grace |-> 0,
               color |-> EnemyById(u.bestEnemy).bodyColor]
         ELSE [matchers |-> u.matchers, current |-> u.bestEnemy,
               confirmed |-> confirmed, grace |-> grace,
               color |-> EnemyById(u.bestEnemy).bodyColor]
    ELSE [matchers |-> u.matchers, current |-> current, confirmed |-> confirmed,
          grace |-> grace, color |-> color]

\* A transition that forgets the current candidate during the grace period.
TransitionGraceClearsCurrent(u, current, confirmed, grace, period, color) ==
    IF confirmed # null
    THEN IF u.bestEnemy = confirmed /\ u.bestMatchQuality > QUALITY_THRESHOLD_CONFIRM
         THEN [matchers |-> u.matchers, current |-> current, confirmed |-> confirmed,
               grace |-> 0, color |-> EnemyById(confirmed).bodyColor]
         ELSE IF inGrace(grace + 1, period)
         THEN [matchers |-> u.matchers, current |-> null, confirmed |-> confirmed,
               grace |-> grace + 1, color |-> EnemyById(confirmed).bodyColor]
         ELSE [matchers |-> [id \in DOMAIN u.matchers |-> reset(u.matchers[id])],
               current |-> null, confirmed |-> null,
               grace |-> grace + 1, color |-> originalColor]
    ELSE IF u.bestEnemy # null /\ u.bestMatchQuality > QUALITY_THRESHOLD_BUILD
    THEN IF cycleCompleted(u.matchers[u.bestEnemy])
         THEN [matchers |-> u.matchers, current |-> u.bestEnemy,
               confirmed |-> u.bestEnemy, grace |-> 0,
               color |-> EnemyById(u.bestEnemy).bodyColor]
         ELSE [matchers |-> u.matchers, current |-> u.bestEnemy,
               confirmed |-> confirmed, grace |-> grace,
               color |-> EnemyById(u.bestEnemy).bodyColor]
    ELSE [matchers |-> u.matchers, current |-> null, confirmed |-> confirmed,
          grace |-> grace, color |-> originalColor]

\* A transition that shows the original colour during the grace period.
TransitionGraceUncoloured(u, current, confirmed, grace, period, color) ==
    IF confirmed # null
    THEN IF u.bestEnemy = confirmed /\ u.bestMatchQuality > QUALITY_THRESHOLD_CONFIRM
         THEN [matchers |-> u.matchers, current |-> current, confirmed |-> confirmed,
               grace |-> 0, color |-> EnemyById(confirmed).bodyColor]
         ELSE IF inGrace(grace + 1, period)
         THEN [matchers |-> u.matchers, current |-> current, confirmed |-> confirmed,
               grace |-> grace + 1, color |-> originalColor]
         ELSE [matchers |-> [id \in DOMAIN u.matchers |-> reset(u.matchers[id])],
               current |-> null, confirmed |-> null,
               grace |-> grace + 1, color |-> originalColor]
    ELSE IF u.bestEnemy # null /\ u.bestMatchQuality > QUALITY_THRESHOLD_BUILD
    THEN IF cycleCompleted(u.matchers[u.bestEnemy])
         THEN [matchers |-> u.matchers, current |-> u.bestEnemy,
               confirmed |-> u.bestEnemy, grace |-> 0,
               color |-> EnemyById(u.bestEnemy).bodyColor]
         ELSE [matchers |-> u.matchers, current |-> u.bestEnemy,
               confirmed |-> confirmed, grace |-> grace,
               color |-> EnemyById(u.bestEnemy).bodyColor]
    ELSE [matchers |-> u.matchers, current |-> null, confirmed |-> confirmed,
          grace |-> grace, color |-> originalColor]

\* Lines 711-758: the state transition, given the update phase's result u.
Transition(u, current, confirmed, grace, period, color) ==
    IF confirmed # null
    THEN IF u.bestEnemy = confirmed /\ u.bestMatchQuality > QUALITY_THRESHOLD_CONFIRM
         THEN [matchers |-> u.matchers, current |-> current, confirmed |-> confirmed,
               grace |-> 0, color |-> EnemyById(confirmed).bodyColor]
         ELSE IF inGrace(grace + 1, period)
         THEN [matchers |-> u.matchers, current |-> current, confirmed |-> confirmed,
               grace |-> grace + 1, color |-> EnemyById(confirmed).bodyColor]
         ELSE [matchers |-> [id \in DOMAIN u.matchers |-> reset(u.matchers[id])],
               current |-> null, confirmed |-> null,
               grace |-> grace + 1, color |-> originalColor]
    ELSE IF u.bestEnemy # null /\ u.bestMatchQuality > QUALITY_THRESHOLD_BUILD
    THEN IF cycleCompleted(u.matchers[u.bestEnemy])
         THEN [matchers |-> u.matchers, current |-> u.bestEnemy,
               confirmed |-> u.bestEnemy, grace |-> 0,
               color |-> EnemyById(u.bestEnemy).bodyColor]
         ELSE [matchers |-> u.matchers, current |-> u.bestEnemy,
               confirmed |-> confirmed, grace |-> grace,
               color |-> EnemyById(u.bestEnemy).bodyColor]
    ELSE [matchers |-> u.matchers, current |-> null, confirmed |-> confirmed,
          grace |-> grace, color |-> originalColor]

\* checkPlayerMatches past the guard: the possible results, each with the
\* update phase's record u it came from.
checkPlayerMatches(matchers, current, confirmed, grace, period, color, playerState, frame) ==
    { [u |-> u, t |-> Transition(u, current, confirmed, grace, period, color)] :
      u \in UpdatePhase(InitMatchers(matchers), current, confirmed, playerState, frame) }

-----------------------------------------------------------------------------
\* Input and the frame loop.

\* InputHandler.handleKeyDown: the state toggles (and the lamp).
handleKeyDown(code) ==
    /\ code \in {"KeyQ", "KeyE", "KeyZ", "KeyX", "KeyR"}
    /\ states' =
         IF code = "KeyQ" THEN [states EXCEPT !.leftArmRaised = ~states.leftArmRaised]
         ELSE IF code = "KeyE" THEN [states EXCEPT !.rightArmRaised = ~states.rightArmRaised]
         ELSE IF code = "KeyZ" THEN [states EXCEPT !.leftLegRaised = ~states.leftLegRaised]
         ELSE IF code = "KeyX" THEN [states EXCEPT !.rightLegRaised = ~states.rightLegRaised]
         ELSE [states EXCEPT !.lampBlinking = TRUE]
    /\ blinkTimer' = IF code = "KeyR" THEN BlinkFrames ELSE blinkTimer
    /\ UNCHANGED <<moveHistory, enemies, moveHistoryLength, frameNumber, frameCounter, sequenceMatchers,
                   currentMatchingEnemy, confirmedMatchEnemy, graceFrames, gracePeriod,
                   bodyColor, trackedFrames, mismatchRun, runGrace, shown, arbitration,
                   returned, pc, cursor>>

\* The limb fields of a pose (what the matching compares).
Limbs(state) == [state EXCEPT !.lampBlinking = FALSE]

\* The history variables after a tick with result r that began with the
\* candidates current and confirmed.
Observe(r, playerState) ==
    LET tracked == IF confirmedMatchEnemy # null THEN confirmedMatchEnemy
                   ELSE currentMatchingEnemy
        expired == confirmedMatchEnemy # null /\ r.t.confirmed = null
        rejected == confirmedMatchEnemy # null /\ ~r.u.matched
    IN  /\ trackedFrames' =
             [id \in DOMAIN trackedFrames |->
                 IF expired THEN 0
                 ELSE IF id = tracked
                      THEN Min(trackedFrames[id] + 1, Len(EnemyById(id).frames))
                 ELSE IF id \in r.u.hits THEN 1
                 ELSE trackedFrames[id]]
        /\ mismatchRun' = IF rejected THEN mismatchRun + 1 ELSE 0
        /\ runGrace' = IF ~rejected THEN 0
                       ELSE IF mismatchRun = 0 THEN graceFrames ELSE runGrace
        /\ shown' = [id \in DOMAIN shown |->
                        shown[id] \/ \E i \in 1..Len(EnemyById(id).frames) :
                                         /\ isActiveState(EnemyById(id).frames[i])
                                         /\ Limbs(EnemyById(id).frames[i]) = Limbs(playerState)]
        /\ arbitration' = [bestEnemy |-> r.u.bestEnemy,
                           bestMatchQuality |-> r.u.bestMatchQuality,
                           matched |-> r.u.matched,
                           hits |-> r.u.hits]

\* A recordMove whose eviction empties the history.
recordMoveEvictAll(length) ==
    IF length + 1 > MAX_HISTORY_LENGTH THEN 0 ELSE length + 1

\* Player.recordMove: the length of moveHistory after the push and the
\* eviction of the oldest entry past maxHistoryLength.
recordMove(length) == Min(length + 1, MAX_HISTORY_LENGTH)

\* Game.update: Player.update (lamp timer, recordMove), the two frame
\* counters, then checkPlayerMatches.  limit caps the frame counter.
update(limit) ==
    /\ frameNumber < limit
    /\ blinkTimer' = IF blinkTimer > 0 THEN blinkTimer - 1 ELSE blinkTimer
    /\ states' = IF blinkTimer > 0 THEN states ELSE [states EXCEPT !.lampBlinking = FALSE]
    /\ moveHistoryLength' = recordMove(moveHistoryLength)
    /\ frameNumber' = frameNumber + 1
    /\ frameCounter' = frameCounter + 1
    /\ UNCHANGED <<moveHistory, enemies, gracePeriod, returned, pc, cursor>>
    /\ IF moveHistoryLength' < WarmUp
       THEN UNCHANGED <<sequenceMatchers, currentMatchingEnemy, confirmedMatchEnemy,
                        graceFrames, bodyColor, trackedFrames, mismatchRun, runGrace,
                        shown, arbitration>>
       ELSE \E r \in checkPlayerMatches(sequenceMatchers, currentMatchingEnemy,
                                        confirmedMatchEnemy, graceFrames, gracePeriod,
                                        bodyColor, states', frameCounter') :
               /\ sequenceMatchers' = r.t.matchers
               /\ currentMatchingEnemy' = r.t.current
               /\ confirmedMatchEnemy' = r.t.confirmed
               /\ graceFrames' = r.t.grace
               /\ bodyColor' = r.t.color
               /\ Observe(r, states')

-----------------------------------------------------------------------------
\* The general specification: two enemies over any reference sequences of
\* up to MaxSeqLen frames, a player who may press the left-arm and right-leg
\* keys between frames.

FramePoses == {Idle, LeftArm, RightLeg}

SequenceFamily == UNION { [1..n -> FramePoses] : n \in 1..MaxSeqLen }

Enemy(id, color, frames) == [id |-> id, bodyColor |-> color, frames |-> frames]

\* The Player and Game constructors, over the enemies and grace period given.
Constructed(es, period, offset) ==
    /\ enemies = es
    /\ states = Idle
    /\ blinkTimer = 0
    /\ moveHistoryLength = 0
    /\ moveHistory = <<>>
    /\ frameNumber = 0
    /\ frameCounter = 0
    /\ sequenceMatchers = [id \in {} |-> NewMatcher]
    /\ currentMatchingEnemy = null
    /\ confirmedMatchEnemy = null
    /\ graceFrames = 0
    /\ gracePeriod = period
    /\ bodyColor = originalColor
    /\ trackedFrames = [id \in { es[i].id : i \in 1..Len(es) } |-> 0]
    /\ mismatchRun = 0
    /\ runGrace = 0
    /\ shown = [id \in { es[i].id : i \in 1..Len(es) } |-> FALSE]
    /\ arbitration = [bestEnemy |-> null, bestMatchQuality |-> 0, matched |-> FALSE,
                      hits |-> {}]
    /\ returned = [call |-> "constructor", value |-> null]
    /\ pc = "idle"
    /\ cursor = offset

Init ==
    \E f1 \in SequenceFamily, f2 \in SequenceFamily :
        Constructed(<<Enemy("enemy1", "#ff00ff", f1), Enemy("enemy2", "#ff8800", f2)>>,
                    GRACE_PERIOD, 0)

KeyDown == \E code \in {"KeyQ", "KeyX"} : handleKeyDown(code)

Tick == update(MaxFrames)

Next == KeyDown \/ Tick

Spec == Init /\ [][Next]_vars

-----------------------------------------------------------------------------
\* The shipped enemies.

\* for (let i = 0; i < 150; i++) in createSequence.
Expansion == 150

createSequence(pattern) ==
    [i \in 1..(Len(pattern) * Expansion) |-> pattern[((i - 1) \div Expansion) + 1]]

createEnemies ==
    <<Enemy("enemy1", "#ff00ff", createSequence(<<LeftArm, Idle>>)),
      Enemy("enemy2", "#ff8800", createSequence(<<RightLeg, Idle>>)),
      Enemy("enemy3", "#00ffff", createSequence(<<BothArms, Idle>>))>>

\* The authored patterns of createEnemies, each state kept once.
AuthoredEnemies ==
    <<Enemy("enemy1", "#ff00ff", <<LeftArm, Idle>>),
      Enemy("enemy2", "#ff8800", <<RightLeg, Idle>>),
      Enemy("enemy3", "#00ffff", <<BothArms, Idle>>)>>

-----------------------------------------------------------------------------
\* The grace specification: a grace period tuned down to 1..MaxGracePeriod
\* frames so that it can run out within MaxGraceFrames ticks; the first enemy
\* over any reference sequence, the second with the right-leg pattern as
\* authored, the same free player.

InitGrace ==
    \E f1 \in SequenceFamily, period \in 1..MaxGracePeriod :
        Constructed(<<Enemy("enemy1", "#ff00ff", f1), AuthoredEnemies[2]>>, period, 0)

TickGrace == update(MaxGraceFrames)

NextGrace == KeyDown \/ TickGrace

SpecGrace == InitGrace /\ [][NextGrace]_vars

-----------------------------------------------------------------------------
\* Scripted sessions against the shipped enemies.  A script gives the pose
\* the player shows on each tick; the player presses the one key that turns
\* the live pose into it, then the frame runs.

ScriptKey(target) ==
    /\ states # target
    /\ \E code \in {"KeyQ", "KeyX"} :
          /\ handleKeyDown(code)
          /\ states' = target

ScriptTick(target) ==
    /\ states = target
    /\ update(MaxGameFrames)

\* Left arm for one frame, idle for one frame, in either phase.
AlternateTarget(f) == IF (f + cursor) % 2 = 1 THEN LeftArm ELSE Idle

InitGame == \E offset \in {0, 1} : Constructed(createEnemies, GRACE_PERIOD, offset)

KeyAlternate == ScriptKey(AlternateTarget(frameNumber + 1))
TickAlternate == ScriptTick(AlternateTarget(frameNumber + 1))
NextAlternate == KeyAlternate \/ TickAlternate

SpecAlternate == InitGame /\ [][NextAlternate]_vars

\* Idle through the warm-up (and one frame more when the offset is 1), then
\* the right-leg enemy's reference sequence frame for frame from its first
\* frame, cyclically.
ImitateTarget(f) ==
    LET frames == createEnemies[2].frames
        start == WarmUp + cursor
    IN  IF f < start THEN Idle ELSE frames[((f - start) % Len(frames)) + 1]

KeyImitate == ScriptKey(ImitateTarget(frameNumber + 1))
TickImitate == ScriptTick(ImitateTarget(frameNumber + 1))
NextImitate == KeyImitate \/ TickImitate

SpecImitate == InitGame /\ [][NextImitate]_vars /\ WF_vars(NextImitate)

-----------------------------------------------------------------------------
\* A lone matcher replayed its own reference sequence.

ReplayFamily == UNION { [1..n -> FramePoses] : n \in 1..MaxReplayLen }

\* new SequenceMatcher(frames) for one enemy, nothing else running.
InitReplay ==
    \E f \in ReplayFamily :
        Constructed(<<Enemy("enemy1", "#ff00ff", f)>>, GRACE_PERIOD, 0)

\* The matcher is built on the first frame fed; each step is one updateMatch
\* with the next frame of its own sequence, and advancePosition if accepted.
FeedOwn ==
    LET frames == enemies[1].frames
        matchers == InitMatchers(sequenceMatchers)
    IN  /\ cursor < 2 * Len(frames)
        /\ \E r \in updateAndAdvance(matchers["enemy1"], frames,
                                     frames[(cursor % Len(frames)) + 1], cursor + 1) :
              sequenceMatchers' = [matchers EXCEPT !["enemy1"] = r.m]
        /\ cursor' = cursor + 1
        /\ UNCHANGED <<moveHistory, enemies, states, blinkTimer, moveHistoryLength, frameNumber,
                       frameCounter, currentMatchingEnemy, confirmedMatchEnemy,
                       graceFrames, gracePeriod, bodyColor, trackedFrames, mismatchRun,
                       runGrace, shown, arbitration, returned, pc>>

NextReplay == FeedOwn

SpecReplay == InitReplay /\ [][NextReplay]_vars

-----------------------------------------------------------------------------
\* A lone matcher fed any pose, a missing one included.

\* Calls of updateMatch explored.
MaxFeeds == 3

\* Every pose object: the four limbs and the lamp.
AllPoses ==
    [leftArmRaised : BOOLEAN, rightArmRaised : BOOLEAN, leftLegRaised : BOOLEAN,
     rightLegRaised : BOOLEAN, lampBlinking : BOOLEAN]

\* One-frame sequences over every pose, two-frame sequences over FramePoses.
FeedFamily == [1..1 -> AllPoses] \cup [1..2 -> FramePoses]

InitFeed ==
    \E f \in FeedFamily :
        Constructed(<<Enemy("enemy1", "#ff00ff", f)>>, GRACE_PERIOD, 0)

\* One updateMatch(playerState, frameNumber) on the matcher, and
\* advancePosition if it returned true (lines 672-675); states holds the pose
\* that was passed.
FeedPose ==
    LET frames == enemies[1].frames
        matchers == InitMatchers(sequenceMatchers)
    IN  /\ cursor < MaxFeeds
        /\ \E playerState \in AllPoses \cup {NoPose} :
              /\ states' = playerState
              /\ \E r \in updateAndAdvance(matchers["enemy1"], frames, playerState,
                                           cursor + 1) :
                    /\ sequenceMatchers' = [matchers EXCEPT !["enemy1"] = r.m]
                    /\ arbitration' = [arbitration EXCEPT !.matched = r.matched]
        /\ cursor' = cursor + 1
        /\ UNCHANGED <<moveHistory, enemies, blinkTimer, moveHistoryLength, frameNumber,
                       frameCounter, currentMatchingEnemy, confirmedMatchEnemy,
                       graceFrames, gracePeriod, bodyColor, trackedFrames, mismatchRun,
                       runGrace, shown, returned, pc>>

NextFeed == FeedPose

SpecFeed == InitFeed /\ [][NextFeed]_vars

-----------------------------------------------------------------------------
\* Enemies configured over any frame list, the empty one included: the
\* first enemy over the empty list or any sequence of the family, the second
\* with the right-leg pattern as authored.

InitConfig ==
    \E f1 \in {<<>>} \cup SequenceFamily :
        Constructed(<<Enemy("enemy1", "#ff00ff", f1), AuthoredEnemies[2]>>,
                    GRACE_PERIOD, 0)

TickConfig == update(MaxFrames)

NextConfig == KeyDown \/ TickConfig

SpecConfig == InitConfig /\ [][NextConfig]_vars

-----------------------------------------------------------------------------
\* Lamps.  The player may also blink the lamp (KeyR), and the first enemy's
\* reference frames carry any lamp values.

IdleLamp == Pose(FALSE, FALSE, FALSE, FALSE, TRUE)
LeftArmLamp == Pose(TRUE, FALSE, FALSE, FALSE, TRUE)

LampFamily ==
    UNION { [1..n -> {Idle, LeftArm, IdleLamp, LeftArmLamp}] : n \in 1..MaxSeqLen }

InitLamp ==
    \E f1 \in LampFamily :
        Constructed(<<Enemy("enemy1", "#ff00ff", f1), AuthoredEnemies[2]>>,
                    GRACE_PERIOD, 0)

KeyDownLamp == \E code \in {"KeyQ", "KeyX", "KeyR"} : handleKeyDown(code)

TickLamp == update(MaxFrames)

NextLamp == KeyDownLamp \/ TickLamp

SpecLamp == InitLamp /\ [][NextLamp]_vars

-----------------------------------------------------------------------------
\* The methods of a lone matcher called one at a time, in any order: states
\* holds the pose of the last call that took one, returned the method last
\* called and the value it returned.

\* Calls explored.
MaxCalls == 4

\* The poses passed: the frame poses, a two-limb pose, the idle pose with the
\* lamp on, and no pose at all.
CallPoses == FramePoses \cup {BothArms, IdleLamp, NoPose}

InitCalls ==
    \E f \in SequenceFamily :
        Constructed(<<Enemy("enemy1", "#ff00ff", f)>>, GRACE_PERIOD, 0)

\* What a call leaves alone besides the matcher.
CallFrame ==
    /\ cursor' = cursor + 1
    /\ UNCHANGED <<moveHistory, enemies, blinkTimer, moveHistoryLength, frameNumber,
                   frameCounter, currentMatchingEnemy, confirmedMatchEnemy,
                   graceFrames, gracePeriod, bodyColor, trackedFrames, mismatchRun,
                   runGrace, shown, arbitration, pc>>

\* matcher.updateMatch(playerState, frameNumber).
CallUpdateMatch ==
    LET matchers == InitMatchers(sequenceMatchers) IN
    /\ cursor < MaxCalls
    /\ \E playerState \in CallPoses :
          /\ states' = playerState
          /\ \E r \in updateMatch(matchers["enemy1"], enemies[1].frames, playerState,
                                  cursor + 1) :
                /\ sequenceMatchers' = [matchers EXCEPT !["enemy1"] = r.m]
                /\ returned' = [call |-> "updateMatch", value |-> r.matched]
    /\ CallFrame

\* matcher.advancePosition().
CallAdvancePosition ==
    LET matchers == InitMatchers(sequenceMatchers) IN
    /\ cursor < MaxCalls
    /\ sequenceMatchers' =
          [matchers EXCEPT !["enemy1"] = advancePosition(@, Len(enemies[1].frames))]
    /\ returned' = [call |-> "advancePosition", value |-> null]
    /\ UNCHANGED states
    /\ CallFrame

\* matcher.reset().
CallReset ==
    LET matchers == InitMatchers(sequenceMatchers) IN
    /\ cursor < MaxCalls
    /\ sequenceMatchers' = [matchers EXCEPT !["enemy1"] = reset(@)]
    /\ returned' = [call |-> "reset", value |-> null]
    /\ UNCHANGED states
    /\ CallFrame

\* matcher.findBestStartingPosition(playerState).
CallFindBestStartingPosition ==
    LET matchers == InitMatchers(sequenceMatchers) IN
    /\ cursor < MaxCalls
    /\ \E playerState \in CallPoses :
          /\ states' = playerState
          /\ returned' = [call |-> "findBestStartingPosition",
                          value |-> findBestStartingPosition(enemies[1].frames,
                                                             playerState)]
    /\ sequenceMatchers' = matchers
    /\ CallFrame

NextCalls ==
    CallUpdateMatch \/ CallAdvancePosition \/ CallReset \/ CallFindBestStartingPosition

SpecCalls == InitCalls /\ [][NextCalls]_vars

-----------------------------------------------------------------------------
\* The frame taken apart.  gameLoop runs update() and then render();
\* update() runs player.update(), the two increments and
\* checkPlayerMatches(), one after the other.  pc is the place the frame has
\* got to; returned holds the recordMove call and the entry it pushed on
\* moveHistory.  The page's event loop delivers a key event only between two
\* callbacks, that is while no frame is running.

InitFrame ==
    \E f1 \in SequenceFamily :
        Constructed(<<Enemy("enemy1", "#ff00ff", f1), AuthoredEnemies[2]>>,
                    GRACE_PERIOD, 0)

\* player.update(keys): the lamp timer, then recordMove (lines 161-169).
PlayerUpdate ==
    /\ pc = "idle"
    /\ frameNumber < MaxFrames
    /\ blinkTimer' = IF blinkTimer > 0 THEN blinkTimer - 1 ELSE blinkTimer
    /\ states' = IF blinkTimer > 0 THEN states ELSE [states EXCEPT !.lampBlinking = FALSE]
    /\ moveHistoryLength' = recordMove(moveHistoryLength)
    /\ returned' = [call |-> "recordMove", value |-> states']
    /\ pc' = "updated"
    /\ UNCHANGED <<moveHistory, enemies, frameNumber, frameCounter, sequenceMatchers,
                   currentMatchingEnemy, confirmedMatchEnemy, graceFrames, gracePeriod,
                   bodyColor, trackedFrames, mismatchRun, runGrace, shown, arbitration,
                   cursor>>

\* this.frameNumber++; this.player.frameCounter++ (lines 639-640).
CountFrame ==
    /\ pc = "updated"
    /\ frameNumber' = frameNumber + 1
    /\ frameCounter' = frameCounter + 1
    /\ pc' = "counted"
    /\ UNCHANGED <<moveHistory, enemies, states, blinkTimer, moveHistoryLength, sequenceMatchers,
                   currentMatchingEnemy, confirmedMatchEnemy, graceFrames, gracePeriod,
                   bodyColor, trackedFrames, mismatchRun, runGrace, shown, arbitration,
                   returned, cursor>>

\* this.checkPlayerMatches() (line 648), with the live pose object.
CheckMatches ==
    /\ pc = "counted"
    /\ pc' = "matched"
    /\ UNCHANGED <<moveHistory, enemies, states, blinkTimer, moveHistoryLength, frameNumber,
                   frameCounter, gracePeriod, returned, cursor>>
    /\ IF moveHistoryLength < WarmUp
       THEN UNCHANGED <<sequenceMatchers, currentMatchingEnemy, confirmedMatchEnemy,
                        graceFrames, bodyColor, trackedFrames, mismatchRun, runGrace,
                        shown, arbitration>>
       ELSE \E r \in checkPlayerMatches(sequenceMatchers, currentMatchingEnemy,
                                        confirmedMatchEnemy, graceFrames, gracePeriod,
                                        bodyColor, states, frameCounter) :
               /\ sequenceMatchers' = r.t.matchers
               /\ currentMatchingEnemy' = r.t.current
               /\ confirmedMatchEnemy' = r.t.confirmed
               /\ graceFrames' = r.t.grace
               /\ bodyColor' = r.t.color
               /\ Observe(r, states)

\* this.render(): draws, and reads the tracked matcher for the debug text.
Render ==
    /\ pc = "matched"
    /\ pc' = "idle"
    /\ UNCHANGED <<moveHistory, enemies, states, blinkTimer, moveHistoryLength, frameNumber,
                   frameCounter, sequenceMatchers, currentMatchingEnemy,
                   confirmedMatchEnemy, graceFrames, gracePeriod, bodyColor,
                   trackedFrames, mismatchRun, runGrace, shown, arbitration, returned,
                   cursor>>

\* A key handler that runs wherever the frame has got to.
KeyDownAnytime == KeyDown

\* A key event, delivered between two frames.
KeyDownFrame == pc = "idle" /\ KeyDown

NextFrame == KeyDownFrame \/ PlayerUpdate \/ CountFrame \/ CheckMatches \/ Render

SpecFrame == InitFrame /\ [][NextFrame]_vars

-----------------------------------------------------------------------------
\* The move history, entry by entry.  Player.update is called on its own;
\* the player presses the left-arm and lamp keys around the first updates
\* and around the update that fills the history.  An entry of the array is
\* either an object of its own or the live pose object itself.

\* Player updates explored.
MaxUpdates == 123

\* The updates before which keys are pressed.
KeyTicks == {1, 2, MAX_HISTORY_LENGTH, MAX_HISTORY_LENGTH + 1}

\* An entry that is the live object.
JSONCopyAlias(state) == [alias |-> TRUE, value |-> state]

\* JSON.parse(JSON.stringify(this.states)): a new object with the fields
\* of the pose as they are now.
JSONCopy(state) == [alias |-> FALSE, value |-> state]

\* What reading an entry gives.
Read(entry) == IF entry.alias THEN states ELSE entry.value

\* Player.recordMove on the entries: push, then shift if over the limit.
recordMoveEntries(history, state) ==
    LET pushed == Append(history, JSONCopy(state))
    IN  IF Len(pushed) > MAX_HISTORY_LENGTH THEN Tail(pushed) ELSE pushed

InitHistory == Constructed(AuthoredEnemies, GRACE_PERIOD, 0)

KeyDownHistory ==
    /\ cursor \in KeyTicks
    /\ \E code \in {"KeyQ", "KeyR"} : handleKeyDown(code)

\* Player.update(keys): the lamp timer and recordMove (lines 161-169).
PlayerUpdateHistory ==
    /\ cursor < MaxUpdates
    /\ blinkTimer' = IF blinkTimer > 0 THEN blinkTimer - 1 ELSE blinkTimer
    /\ states' = IF blinkTimer > 0 THEN states ELSE [states EXCEPT !.lampBlinking = FALSE]
    /\ moveHistory' = recordMoveEntries(moveHistory, states')
    /\ moveHistoryLength' = recordMove(moveHistoryLength)
    /\ cursor' = cursor + 1
    /\ UNCHANGED <<enemies, frameNumber, frameCounter, sequenceMatchers,
                   currentMatchingEnemy, confirmedMatchEnemy, graceFrames, gracePeriod,
                   bodyColor, trackedFrames, mismatchRun, runGrace, shown, arbitration,
                   returned, pc>>

NextHistory == KeyDownHistory \/ PlayerUpdateHistory

SpecHistory == InitHistory /\ [][NextHistory]_vars

-----------------------------------------------------------------------------
\* Runs of active frames.  The first enemy's reference sequence is a run of
\* left-arm frames with idle frames before or after it, one or as many as
\* take the confidence from 0 to 1; the grace period
\* is tuned down as in the grace specification; the player raises and
\* lowers the left arm at will.

\* Longest run of active frames drawn, and the ticks explored.
MaxRun == 8
MaxRunFrames == 17

Run(n) == [i \in 1..n |-> LeftArm]

Rest(n) == [i \in 1..n |-> Idle]

\* Perfect matches that take the confidence from 0 to 1.
FullRest == One \div CONFIDENCE_MATCH

RunFamily ==
    UNION { {Run(n) \o Rest(k), Rest(k) \o Run(n)} : n \in 1..MaxRun, k \in {1, FullRest} }

InitRuns ==
    \E f1 \in RunFamily, period \in 1..MaxGracePeriod :
        Constructed(<<Enemy("enemy1", "#ff00ff", f1), AuthoredEnemies[2]>>, period, 0)

KeyDownRuns == handleKeyDown("KeyQ")

TickRuns == update(MaxRunFrames)

NextRuns == KeyDownRuns \/ TickRuns

SpecRuns == InitRuns /\ [][NextRuns]_vars

-----------------------------------------------------------------------------
\* Claims.

Matcher(id) == sequenceMatchers[id]

SequenceLength(id) == Len(EnemyById(id).frames)

AllMatchersReset ==
    \A id \in EnemyIds : id \in DOMAIN sequenceMatchers /\ sequenceMatchers[id] = NewMatcher

\* C1: the arbitrator never confirms an enemy whose matcher has been tracked
\* (seeded by the start-position search, then updated) for fewer than N
\* frames, N the length of its reference sequence.
C1_ConfirmedOnlyAfterNFrames ==
    confirmedMatchEnemy # null =>
        trackedFrames[confirmedMatchEnemy] >= SequenceLength(confirmedMatchEnemy)

\* C2 as stated: a run of fewer than gracePeriod consecutive mismatching
\* ticks (updates the confirmed matcher rejects) that starts in any confirmed
\* state leaves the same enemy confirmed.
C2_ShortRunKeepsConfirmed ==
    [][(0 < mismatchRun' /\ mismatchRun' < gracePeriod)
         => confirmedMatchEnemy' = confirmedMatchEnemy]_vars

\* C2 amended: a run of fewer than gracePeriod consecutive mismatching ticks
\* that starts in a confirmed state with graceFrames = 0 leaves the same
\* enemy confirmed.
C2_ShortRunFromFreshGraceKeepsConfirmed ==
    [][(0 < mismatchRun' /\ mismatchRun' < gracePeriod /\ runGrace' = 0)
         => confirmedMatchEnemy' = confirmedMatchEnemy]_vars

\* C2 witness: a run of gracePeriod - 1 mismatching ticks from graceFrames = 0
\* has used up all but one frame of the grace period; the enemy is still
\* confirmed.
C2_Witness ==
    /\ mismatchRun > 0
    /\ mismatchRun = gracePeriod - 1
    /\ runGrace = 0
    /\ graceFrames = gracePeriod - 1
    /\ confirmedMatchEnemy # null

\* C3 as stated: after the gracePeriod-th consecutive mismatching tick of a
\* run that starts in any confirmed state, no enemy is confirmed and every
\* matcher has matchPosition 0, cyclesCompleted 0 and confidenceScore 0.
C3_GracePeriodMismatchesClear ==
    mismatchRun = gracePeriod =>
        /\ confirmedMatchEnemy = null
        /\ \A id \in DOMAIN sequenceMatchers :
              /\ Matcher(id).matchPosition = 0
              /\ Matcher(id).cyclesCompleted = 0
              /\ Matcher(id).confidenceScore = 0

\* C3 amended: a mismatching tick counts towards the grace period only once
\* quality is at or below QUALITY_THRESHOLD_CONFIRM, which takes at most two
\* mismatches; so gracePeriod + 2 consecutive mismatching ticks always clear
\* the confirmation, and the tick of the run that clears it leaves every
\* matcher with matchPosition 0, cyclesCompleted 0 and confidenceScore 0.
C3_GracePeriodPlusTwoMismatchesClear ==
    /\ mismatchRun >= gracePeriod + 2 => confirmedMatchEnemy = null
    /\ (mismatchRun > 0 /\ confirmedMatchEnemy = null) =>
          \A id \in DOMAIN sequenceMatchers :
              /\ Matcher(id).matchPosition = 0
              /\ Matcher(id).cyclesCompleted = 0
              /\ Matcher(id).confidenceScore = 0

\* C3 witness: the confirmation survived gracePeriod + 1 mismatching ticks
\* and the next one cleared it.
C3_Witness ==
    /\ mismatchRun = gracePeriod + 2
    /\ confirmedMatchEnemy = null

C5_ConfirmedHasCompletedCycle ==
    confirmedMatchEnemy # null => Matcher(confirmedMatchEnemy).cyclesCompleted >= 1

\* C5 witness: an enemy is still confirmed part-way through its grace period,
\* ticks after the one that confirmed it.
C5_Witness ==
    /\ confirmedMatchEnemy # null
    /\ graceFrames > 0
    /\ trackedFrames[confirmedMatchEnemy] > Matcher(confirmedMatchEnemy).cyclesCompleted

\* C6: against the shipped enemies, a player who alternates left arm for one
\* frame and idle for one frame keeps enemy1 as the tracked candidate on
\* every tick from the first left-arm frame after warm-up (the first or the
\* second arbitrated tick), and once its matcher has taken N = 300 frames it
\* has cyclesCompleted >= 1 and enemy1 is confirmed.
C6_AlternatingPlayerConfirmed ==
    /\ frameNumber > WarmUp => trackedFrames["enemy1"] >= 1
    /\ trackedFrames["enemy1"] >= 1 =>
          /\ currentMatchingEnemy = "enemy1"
          /\ Matcher("enemy1").cyclesCompleted * SequenceLength("enemy1")
               + Matcher("enemy1").matchPosition >= trackedFrames["enemy1"]
    /\ trackedFrames["enemy1"] = SequenceLength("enemy1") =>
          /\ Matcher("enemy1").cyclesCompleted >= 1
          /\ confirmedMatchEnemy = "enemy1"

\* C6 witness: the 300th frame has been taken and enemy1 is confirmed.
C6_Witness ==
    /\ SequenceLength("enemy1") = 2 * Expansion
    /\ trackedFrames["enemy1"] = 2 * Expansion
    /\ confirmedMatchEnemy = "enemy1"

\* C7: against the shipped enemies, a player who reproduces the right-leg
\* enemy's reference sequence frame for frame from its first active frame
\* eventually has that enemy confirmed.
C7_ImitatorEventuallyConfirmed == <>(confirmedMatchEnemy = "enemy2")

\* C7 witness: enemy2 is confirmed with a full cycle of perfect matches.
C7_Witness ==
    /\ confirmedMatchEnemy = "enemy2"
    /\ Matcher("enemy2").cyclesCompleted = 1
    /\ Matcher("enemy2").confidenceScore = One
    /\ ~shown["enemy1"]

\* The reference sequence contains an active frame.
HasActiveFrame(id) ==
    \E i \in 1..SequenceLength(id) : isActiveState(EnemyById(id).frames[i])

\* C8: an enemy none of whose active frames the pose stream has equalled is
\* neither the current nor the confirmed candidate; so when that holds of
\* every enemy, no candidate and no confirmation is reported.
C8_UnshownEnemyNeverTracked ==
    \A id \in DOMAIN shown :
        ~shown[id] => currentMatchingEnemy # id /\ confirmedMatchEnemy # id

\* C8 witness: the player has shown active poses for several arbitrated
\* ticks and has another enemy tracked, yet none of this enemy's active
\* frames.
C8_Witness ==
    \E id \in DOMAIN shown :
        /\ ~shown[id]
        /\ HasActiveFrame(id)
        /\ isActiveState(states)
        /\ frameNumber >= WarmUp + 2
        /\ currentMatchingEnemy \notin {id, null}

\* C9: a fresh matcher fed its own reference sequence from index 0 has
\* cyclesCompleted 0 after each of the first N - 1 updates, cyclesCompleted 1
\* and matchPosition 0 after the N-th, and then quality min(1, N x
\* CONFIDENCE_MATCH), idle frames included.
C9_OwnSequenceCompletesOneCycle ==
    LET N == SequenceLength("enemy1") IN
    /\ (1 <= cursor /\ cursor < N) =>
          /\ Matcher("enemy1").cyclesCompleted = 0
          /\ Matcher("enemy1").matchPosition = cursor
    /\ cursor = N =>
          /\ Matcher("enemy1").cyclesCompleted = 1
          /\ Matcher("enemy1").matchPosition = 0
          /\ Matcher("enemy1").confidenceScore = Min(One, N * CONFIDENCE_MATCH)

\* C9 witness: a sequence with idle frames, long enough for the score to be
\* capped, has just been fed once.
C9_Witness ==
    /\ cursor = SequenceLength("enemy1")
    /\ cursor * CONFIDENCE_MATCH > One
    /\ \E i \in 1..cursor : ~isActiveState(enemies[1].frames[i])
    /\ Matcher("enemy1").cyclesCompleted = 1

\* C10: on the tick where the grace period runs out, confirmedMatchEnemy and
\* currentMatchingEnemy become null, every matcher in the map is back to
\* matchPosition 0, cyclesCompleted 0, confidenceScore 0, lastMatchFrame
\* never, isActive false, and the colour is the original colour.
C10_GraceExpiryResetsAll ==
    [][(confirmedMatchEnemy # null /\ graceFrames' >= gracePeriod)
         => /\ confirmedMatchEnemy' = null
            /\ currentMatchingEnemy' = null
            /\ \A id \in EnemyIds :
                  /\ id \in DOMAIN sequenceMatchers'
                  /\ sequenceMatchers'[id].matchPosition = 0
                  /\ sequenceMatchers'[id].cyclesCompleted = 0
                  /\ sequenceMatchers'[id].confidenceScore = 0
                  /\ sequenceMatchers'[id].lastMatchFrame = NegInfinity
                  /\ sequenceMatchers'[id].isActive = FALSE
            /\ bodyColor' = originalColor]_vars

\* C10 witness: the grace period has just run out (graceFrames stays at
\* gracePeriod until the next confirmation) on a tick that followed at least
\* two ticks of a confirmed enemy.
C10_Witness ==
    /\ graceFrames = gracePeriod
    /\ confirmedMatchEnemy = null
    /\ bodyColor = originalColor
    /\ frameNumber >= WarmUp + gracePeriod + 1

-----------------------------------------------------------------------------
\* Claims about the arbitration of one tick.

\* A frame whose checkPlayerMatches call got past the warm-up guard.
Arbitrated == frameNumber' = frameNumber + 1 /\ moveHistoryLength' >= WarmUp

\* The candidate the tick starts with: the confirmed one, else the current.
Tracked == IF confirmedMatchEnemy # null THEN confirmedMatchEnemy ELSE currentMatchingEnemy

\* The tick clears a confirmed enemy (lines 728-736).
Expires == confirmedMatchEnemy # null /\ confirmedMatchEnemy' = null

\* C11: on a tick with no confirmed candidate, the tick's best candidate E is
\* promoted to confirmedMatchEnemy if and only if its quality exceeds
\* QUALITY_THRESHOLD_BUILD and its matcher has cyclesCompleted >= 1; promotion
\* sets graceFrames to 0 and currentMatchingEnemy to E; with the quality above
\* the threshold and cyclesCompleted = 0, E is currentMatchingEnemy and
\* confirmedMatchEnemy stays null.
C11_PromotionIffQualityAndCycle ==
    [][(Arbitrated /\ confirmedMatchEnemy = null) =>
         LET E == arbitration'.bestEnemy
             good == E # null /\ arbitration'.bestMatchQuality > QUALITY_THRESHOLD_BUILD
         IN  /\ E # null =>
                   arbitration'.bestMatchQuality = sequenceMatchers'[E].confidenceScore
             /\ confirmedMatchEnemy' # null <=>
                   (good /\ sequenceMatchers'[E].cyclesCompleted >= 1)
             /\ confirmedMatchEnemy' # null =>
                   /\ confirmedMatchEnemy' = E
                   /\ currentMatchingEnemy' = E
                   /\ graceFrames' = 0
             /\ (good /\ sequenceMatchers'[E].cyclesCompleted = 0) =>
                   /\ currentMatchingEnemy' = E
                   /\ confirmedMatchEnemy' = null]_vars

\* C11 witness: a candidate that was building on the tick before (seeded at
\* index 0 of a two-frame sequence) has just wrapped and been promoted.
C11_Witness ==
    /\ confirmedMatchEnemy # null
    /\ arbitration.bestEnemy = confirmedMatchEnemy
    /\ currentMatchingEnemy = confirmedMatchEnemy
    /\ graceFrames = 0
    /\ SequenceLength(confirmedMatchEnemy) = 2
    /\ trackedFrames[confirmedMatchEnemy] = 2
    /\ Matcher(confirmedMatchEnemy).cyclesCompleted = 1
    /\ Matcher(confirmedMatchEnemy).matchPosition = 0
    /\ Matcher(confirmedMatchEnemy).lastMatchFrame = frameCounter

\* C12: on a tick that starts with a tracked candidate and on which the grace
\* period does not expire, every matcher but the tracked candidate's keeps
\* all its fields.
C12_OnlyTrackedMatcherUpdated ==
    [][(Arbitrated /\ Tracked # null /\ ~Expires) =>
         \A id \in DOMAIN sequenceMatchers' \ {Tracked} :
             /\ id \in DOMAIN sequenceMatchers
             /\ sequenceMatchers'[id] = sequenceMatchers[id]]_vars

\* C12 witness: enemy1 has been tracked for a second tick while enemy2's
\* matcher still holds what the search left in it on an earlier frame.
C12_Witness ==
    /\ currentMatchingEnemy = "enemy1"
    /\ trackedFrames["enemy1"] >= 2
    /\ Matcher("enemy1").lastMatchFrame = frameCounter
    /\ Matcher("enemy2").lastMatchFrame # NegInfinity
    /\ Matcher("enemy2").lastMatchFrame < frameCounter
    /\ Matcher("enemy2").confidenceScore > 0

\* The place of an enemy in creation order (its index in Game.enemies).
CreationIndex(id) == CHOOSE i \in 1..Len(enemies) : enemies[i].id = id

\* C18: on a search tick (no candidate tracked), the enemies that yield a
\* starting position are seeded and compared; the one that becomes
\* currentMatchingEnemy has a strictly higher quality than every such enemy
\* created before it and at least the quality of every one created after it
\* (so among equal qualities it is the first created); if no enemy yields a
\* starting position, no candidate is selected.
C18_SearchKeepsFirstOnTie ==
    [][(Arbitrated /\ Tracked = null) =>
         LET hits == arbitration'.hits
             chosen == currentMatchingEnemy'
             quality(id) == sequenceMatchers'[id].confidenceScore
         IN  /\ hits = { id \in EnemyIds :
                           findBestStartingPosition(EnemyById(id).frames, states') # -1 }
             /\ IF hits = {}
                THEN chosen = null /\ arbitration'.bestEnemy = null
                ELSE /\ chosen \in hits
                     /\ \A id \in hits :
                           /\ CreationIndex(id) < CreationIndex(chosen)
                                 => quality(id) < quality(chosen)
                           /\ CreationIndex(id) > CreationIndex(chosen)
                                 => quality(id) <= quality(chosen)]_vars

\* C18 witness: both enemies yielded a starting position on this tick with
\* equal qualities, and the first created is the candidate.
C18_Witness ==
    /\ arbitration.hits = {"enemy1", "enemy2"}
    /\ currentMatchingEnemy = "enemy1"
    /\ Matcher("enemy1").lastMatchFrame = frameCounter
    /\ Matcher("enemy2").lastMatchFrame = frameCounter
    /\ Matcher("enemy1").confidenceScore = Matcher("enemy2").confidenceScore

\* C19: on a frame where fewer than 5 poses have been recorded in
\* moveHistory, checkPlayerMatches changes nothing (no matcher is created or
\* updated; currentMatchingEnemy, confirmedMatchEnemy, graceFrames and the
\* colour keep their values); and these are exactly the first 4 frames of
\* the session, the history never shrinking below its cap afterwards.
C19_WarmUpGuardFirstFourFrames ==
    [][frameNumber' = frameNumber + 1 =>
         /\ moveHistoryLength' < WarmUp <=> frameNumber' <= WarmUp - 1
         /\ moveHistoryLength' < WarmUp =>
               UNCHANGED <<sequenceMatchers, currentMatchingEnemy, confirmedMatchEnemy,
                           graceFrames, bodyColor>>]_vars

\* C19 witness: the fourth frame ran with the left arm raised and left no
\* matcher and no candidate behind.
C19_Witness ==
    /\ frameNumber = WarmUp - 1
    /\ moveHistoryLength = WarmUp - 1
    /\ isActiveState(states)
    /\ DOMAIN sequenceMatchers = {}
    /\ currentMatchingEnemy = null
    /\ bodyColor = originalColor

\* Frames a matcher has advanced through: full cycles and the position.
Progress(m, sequenceLength) == m.cyclesCompleted * sequenceLength + m.matchPosition

\* C20 as stated: on a tick that starts with a tracked candidate, if
\* updateMatch returned false the matcher's matchPosition and cyclesCompleted
\* are unchanged by the tick, and on every such tick the matcher advances by
\* at most one position.
C20_RejectedUpdateStalls ==
    [][(Arbitrated /\ Tracked # null) =>
         LET before == sequenceMatchers[Tracked]
             after == sequenceMatchers'[Tracked]
             N == SequenceLength(Tracked)
         IN  /\ ~arbitration'.matched =>
                   /\ after.matchPosition = before.matchPosition
                   /\ after.cyclesCompleted = before.cyclesCompleted
             /\ Progress(after, N) - Progress(before, N) \in {0, 1}]_vars

\* C20 amended: the same, on ticks on which the grace period does not
\* expire; a tick on which it expires leaves the matcher at matchPosition 0
\* with cyclesCompleted 0, whatever updateMatch returned.  When updateMatch
\* returned true the matcher advances by exactly one position.
C20_RejectedUpdateStallsUnlessExpiry ==
    [][(Arbitrated /\ Tracked # null) =>
         LET before == sequenceMatchers[Tracked]
             after == sequenceMatchers'[Tracked]
             N == SequenceLength(Tracked)
         IN  IF Expires
             THEN after.matchPosition = 0 /\ after.cyclesCompleted = 0
             ELSE /\ ~arbitration'.matched =>
                        /\ after.matchPosition = before.matchPosition
                        /\ after.cyclesCompleted = before.cyclesCompleted
                  /\ arbitration'.matched =>
                        Progress(after, N) = Progress(before, N) + 1
                  /\ Progress(after, N) - Progress(before, N) \in {0, 1}]_vars

\* C20 witness: a confirmed matcher has just rejected an update and stands
\* where it stood, past index 0.
C20_Witness ==
    /\ confirmedMatchEnemy # null
    /\ ~arbitration.matched
    /\ arbitration.bestEnemy = confirmedMatchEnemy
    /\ mismatchRun >= 1
    /\ Matcher(confirmedMatchEnemy).matchPosition = 1
    /\ Matcher(confirmedMatchEnemy).cyclesCompleted >= 1

\* C22: after every arbitrated tick the player's colour follows the
\* arbitrator's state: the confirmed enemy's colour while an enemy is
\* confirmed (every tick of the grace period included), else the current
\* candidate's colour while there is one, else the original colour.
C22_ColourFollowsArbitrator ==
    frameNumber >= WarmUp =>
        bodyColor = IF confirmedMatchEnemy # null
                    THEN EnemyById(confirmedMatchEnemy).bodyColor
                    ELSE IF currentMatchingEnemy # null
                    THEN EnemyById(currentMatchingEnemy).bodyColor
                    ELSE originalColor

\* C22 witness: a confirmed enemy's update was rejected, the grace period is
\* running, and the player still wears the enemy's colour.
C22_Witness ==
    /\ confirmedMatchEnemy # null
    /\ graceFrames > 0
    /\ graceFrames < gracePeriod
    /\ mismatchRun >= 1
    /\ bodyColor = EnemyById(confirmedMatchEnemy).bodyColor
    /\ bodyColor # originalColor

\* C23: matchPosition of every matcher is within [0, N), N the length of its
\* reference sequence, in every reachable state.
C23_MatchPositionInRange ==
    \A id \in DOMAIN sequenceMatchers :
        0 <= Matcher(id).matchPosition /\ Matcher(id).matchPosition < SequenceLength(id)

\* C23 witness: on this tick the search seeded a matcher at the last index of
\* a two-frame sequence and the advance wrapped it to 0.
C23_Witness ==
    \E id \in DOMAIN sequenceMatchers :
        /\ SequenceLength(id) = 2
        /\ id \in arbitration.hits
        /\ findBestStartingPosition(EnemyById(id).frames, states) = 1
        /\ Matcher(id).lastMatchFrame = frameCounter
        /\ Matcher(id).matchPosition = 0
        /\ Matcher(id).cyclesCompleted = 1

\* The tick drops a building candidate (lines 754-758 with a current,
\* unconfirmed candidate).
Drops ==
    /\ confirmedMatchEnemy = null
    /\ currentMatchingEnemy # null
    /\ currentMatchingEnemy' = null

\* C13 as stated: on the tick that abandons a tracked candidate (a building
\* candidate dropped, or a confirmed one whose grace period expired) that
\* candidate's matcher is back to its constructed fields.
C13_AbandonedCandidateReset ==
    [][(Arbitrated /\ (Drops \/ Expires)) => sequenceMatchers'[Tracked] = NewMatcher]_vars

\* C13 amended: the tick on which a confirmed candidate's grace period
\* expires resets its matcher; the tick that drops a building candidate does
\* not: the matcher keeps the fields its update left, with a score at or
\* below QUALITY_THRESHOLD_BUILD and a lastMatchFrame that is not "never".
C13_ExpiryResetsDropKeepsMatcher ==
    [][Arbitrated =>
         /\ Expires => sequenceMatchers'[Tracked] = NewMatcher
         /\ Drops =>
               /\ sequenceMatchers'[Tracked].lastMatchFrame = sequenceMatchers[Tracked].lastMatchFrame
               /\ sequenceMatchers'[Tracked].lastMatchFrame # NegInfinity
               /\ sequenceMatchers'[Tracked].confidenceScore <= QUALITY_THRESHOLD_BUILD
               /\ sequenceMatchers'[Tracked].cyclesCompleted
                     >= sequenceMatchers[Tracked].cyclesCompleted
               /\ sequenceMatchers'[Tracked] # NewMatcher]_vars

\* C13 witness: a building candidate has just been dropped and its matcher
\* still stands at a position past 0.
C13_Witness ==
    /\ confirmedMatchEnemy = null
    /\ currentMatchingEnemy = null
    /\ arbitration.bestEnemy # null
    /\ arbitration.hits = {}
    /\ arbitration.bestMatchQuality <= QUALITY_THRESHOLD_BUILD
    /\ Matcher(arbitration.bestEnemy).matchPosition > 0
    /\ Matcher(arbitration.bestEnemy).lastMatchFrame # NegInfinity

-----------------------------------------------------------------------------
\* Claims about a lone matcher and the pose comparison.

\* The matcher before and after a call of FeedPose, its reference frames and
\* the frame it expected.
FedBefore == InitMatchers(sequenceMatchers)["enemy1"]
FedAfter == sequenceMatchers'["enemy1"]
FedExpected == enemies[1].frames[FedBefore.matchPosition + 1]

\* updateMatch was called with a missing pose.
FedNull == cursor' = cursor + 1 /\ states' = NoPose

\* C14 as stated: updateMatch with a null or absent player pose never returns
\* true, never raises the confidence and never has the matcher advanced,
\* whatever the expected frame.
C14_NullPoseNeverMatches ==
    [][FedNull =>
         /\ ~arbitration'.matched
         /\ FedAfter.confidenceScore <= FedBefore.confidenceScore
         /\ FedAfter.matchPosition = FedBefore.matchPosition
         /\ FedAfter.cyclesCompleted = FedBefore.cyclesCompleted]_vars

\* C14 amended: updateMatch with a null or absent player pose never takes the
\* perfect-match branch (the confidence is never raised, isActive never set)
\* and never throws; the pose is handled as an idle pose that equals nothing:
\* the call returns true and the matcher is advanced, with the score kept and
\* lastMatchFrame set when the expected frame is idle, and with the score
\* lowered by CONFIDENCE_DECAY_MIXED when the expected frame is active.
C14_NullPoseHandledAsIdle ==
    [][FedNull =>
         /\ arbitration'.matched
         /\ FedAfter.isActive = FedBefore.isActive
         /\ FedAfter.confidenceScore <= FedBefore.confidenceScore
         /\ FedAfter.matchPosition = (FedBefore.matchPosition + 1) % Len(enemies[1].frames)
         /\ ~isActiveState(FedExpected) =>
               /\ FedAfter.confidenceScore = FedBefore.confidenceScore
               /\ FedAfter.lastMatchFrame = cursor'
         /\ isActiveState(FedExpected) =>
               /\ FedAfter.confidenceScore
                    \in Decay(FedBefore.confidenceScore, CONFIDENCE_DECAY_MIXED)
               /\ FedAfter.lastMatchFrame = FedBefore.lastMatchFrame]_vars

\* C14 witness: a matcher that had just taken a perfect match was passed a
\* missing pose against an active frame: it lost CONFIDENCE_DECAY_MIXED and
\* the call returned true.
C14_Witness ==
    /\ states = NoPose
    /\ arbitration.matched
    /\ Matcher("enemy1").lastMatchFrame = cursor - 1
    /\ Matcher("enemy1").confidenceScore > 0
    /\ Matcher("enemy1").confidenceScore < CONFIDENCE_MATCH

\* C16: on poses that are not missing, statesEqual is reflexive and
\* symmetric and is true exactly of two poses with the same four limb
\* fields, whatever their lamps; updateMatch takes its perfect-match branch
\* on exactly those.
C16_PoseEqualityOnLimbs ==
    [][(cursor' = cursor + 1 /\ states' # NoPose) =>
         /\ statesEqual(states', states')
         /\ statesEqual(FedExpected, FedExpected)
         /\ statesEqual(states', FedExpected) <=> statesEqual(FedExpected, states')
         /\ statesEqual(states', FedExpected) <=> Limbs(states') = Limbs(FedExpected)
         /\ FedAfter.lastMatchFrame = cursor' <=> Limbs(states') = Limbs(FedExpected)]_vars

\* C16 witness: an active pose with the lamp on was compared with the same
\* limbs, lamp off, and taken for a perfect match.
C16_Witness ==
    /\ cursor >= 1
    /\ states # NoPose
    /\ Len(enemies[1].frames) = 1
    /\ states # enemies[1].frames[1]
    /\ Limbs(states) = Limbs(enemies[1].frames[1])
    /\ isActiveState(states)
    /\ Matcher("enemy1").lastMatchFrame = cursor
    /\ Matcher("enemy1").isActive

\* C15: no matcher over a zero-length frame list exists in a ticking state
\* (the construction of one fails).
C15_NoMatcherOverEmptySequence ==
    \A id \in DOMAIN sequenceMatchers : SequenceLength(id) > 0

-----------------------------------------------------------------------------
\* The lamp and the matching.

\* A pose with the lamp either way, and a reference sequence with every lamp
\* off.
LampVariants(state) == { [state EXCEPT !.lampBlinking = lamp] : lamp \in BOOLEAN }
StripLamps(sequence) == [i \in 1..Len(sequence) |-> Limbs(sequence[i])]

\* C17: the lamp does not influence matching.  From any reachable matching
\* state, a tick on the live pose with the lamp on and with the lamp off has
\* the same outcomes (matchers, currentMatchingEnemy, confirmedMatchEnemy,
\* graceFrames), and every call the tick can make on a matcher
\* (findBestStartingPosition; updateMatch and advancePosition from the
\* matcher's position or from a seeded one) gives on the reference frames and
\* pose as they are what it gives on the same frames and pose with every
\* lamp off.  Two runs whose poses agree on the limbs at every tick start
\* from the same matching state, so tick by tick they stay equal.
C17_LampDoesNotInfluenceMatching ==
    \A p \in LampVariants(states) :
        /\ checkPlayerMatches(sequenceMatchers, currentMatchingEnemy, confirmedMatchEnemy,
                              graceFrames, gracePeriod, bodyColor, p, frameCounter + 1)
             = checkPlayerMatches(sequenceMatchers, currentMatchingEnemy,
                                  confirmedMatchEnemy, graceFrames, gracePeriod, bodyColor,
                                  Limbs(p), frameCounter + 1)
        /\ \A i \in 1..Len(enemies) :
              LET sequence == enemies[i].frames
                  m == InitMatchers(sequenceMatchers)[enemies[i].id]
              IN  /\ findBestStartingPosition(sequence, p)
                       = findBestStartingPosition(StripLamps(sequence), Limbs(p))
                  /\ updateAndAdvance(m, sequence, p, frameCounter + 1)
                       = updateAndAdvance(m, StripLamps(sequence), Limbs(p),
                                          frameCounter + 1)
                  /\ \A startPos \in 0..(Len(sequence) - 1) :
                        updateAndAdvance([reset(m) EXCEPT !.matchPosition = startPos],
                                         sequence, p, frameCounter + 1)
                          = updateAndAdvance([reset(m) EXCEPT !.matchPosition = startPos],
                                             StripLamps(sequence), Limbs(p),
                                             frameCounter + 1)

\* C17 witness: enemy1, whose two reference frames differ in the lamp, is
\* confirmed by a player whose lamp is on.
C17_Witness ==
    /\ states.lampBlinking
    /\ confirmedMatchEnemy = "enemy1"
    /\ SequenceLength("enemy1") = 2
    /\ enemies[1].frames[1].lampBlinking # enemies[1].frames[2].lampBlinking
    /\ Limbs(enemies[1].frames[1]) = Limbs(enemies[1].frames[2])
    /\ Matcher("enemy1").lastMatchFrame = frameCounter
    /\ Matcher("enemy1").confidenceScore >= 2 * CONFIDENCE_MATCH

-----------------------------------------------------------------------------
\* Claims about the branches of updateMatch.

\* At least one limb of the pose is raised.
AnyLimb(state) ==
    \E limb \in {"leftArmRaised", "rightArmRaised", "leftLegRaised", "rightLegRaised"} :
        state[limb]

\* updateMatch (and the advance that follows a true) ran on a pose that is
\* not missing.
FedPose == cursor' = cursor + 1 /\ states' # NoPose

\* C21: for poses that are not missing, updateMatch returns false exactly
\* when the player pose and the expected frame are both active and differ in
\* a limb; it returns true when they are equal, when both are idle and when
\* exactly one is active, and a frame with exactly one active advances the
\* matcher.
C21_RejectsOnlyActiveMismatch ==
    [][FedPose =>
         /\ arbitration'.matched <=>
               ~(AnyLimb(states') /\ AnyLimb(FedExpected)
                   /\ Limbs(states') # Limbs(FedExpected))
         /\ AnyLimb(states') # AnyLimb(FedExpected) =>
               /\ arbitration'.matched
               /\ Progress(FedAfter, Len(enemies[1].frames))
                    = Progress(FedBefore, Len(enemies[1].frames)) + 1]_vars

\* C21 witness: a fresh matcher that expected the left arm was shown the idle
\* pose; the call returned true and the matcher stands at the next frame
\* without ever having matched.
C21_Witness ==
    /\ cursor = 1
    /\ states = Idle
    /\ arbitration.matched
    /\ Len(enemies[1].frames) = 2
    /\ enemies[1].frames[1] = LeftArm
    /\ Matcher("enemy1").matchPosition = 1
    /\ Matcher("enemy1").lastMatchFrame = NegInfinity

\* The pose is there and has a limb raised.
Raised(state) == state # NoPose /\ AnyLimb(state)

\* The pose is there and has the limbs of the frame the matcher expected.
FedEqual == states' # NoPose /\ Limbs(states') = Limbs(FedExpected)

\* C26 as stated: after an updateMatch call that returns true, lastMatchFrame
\* is the frame number passed to the call; a call that returns false leaves
\* lastMatchFrame unchanged.
C26_AcceptedUpdateStampsFrame ==
    [][cursor' = cursor + 1 =>
         /\ arbitration'.matched => FedAfter.lastMatchFrame = cursor'
         /\ ~arbitration'.matched => FedAfter.lastMatchFrame = FedBefore.lastMatchFrame]_vars

\* C26 amended: after an updateMatch call that takes the perfect-match branch
\* or the both-idle branch, lastMatchFrame is the frame number passed; a call
\* that returns false, and a call that returns true for a frame where
\* exactly one of the two poses is active, leaves lastMatchFrame unchanged.
C26_MatchStampsFrameJitterDoesNot ==
    [][cursor' = cursor + 1 =>
         FedAfter.lastMatchFrame =
             IF FedEqual \/ (~Raised(states') /\ ~AnyLimb(FedExpected))
             THEN cursor'
             ELSE FedBefore.lastMatchFrame]_vars

\* C26 witness: the call before this one was a perfect match; this one, with
\* the idle pose against an active frame, returned true and left the stamp
\* of the call before.
C26_Witness ==
    /\ cursor >= 2
    /\ states = Idle
    /\ arbitration.matched
    /\ Matcher("enemy1").lastMatchFrame = cursor - 1
    /\ Matcher("enemy1").confidenceScore < CONFIDENCE_MATCH

\* C27 as stated: after every updateMatch call, isActive is true exactly when
\* that call was a perfect match on an active pose.
C27_ActiveIffPerfectActiveMatch ==
    [][cursor' = cursor + 1 =>
         (FedAfter.isActive <=> (FedEqual /\ AnyLimb(states')))]_vars

\* C27 amended: after an updateMatch call, isActive is true if the call was a
\* perfect match (idle poses included), false if the two poses were both
\* active and different, and what it was before the call otherwise (exactly
\* one pose active, or both idle without being equal).
C27_ActiveSetByMatchClearedByMismatch ==
    [][cursor' = cursor + 1 =>
         FedAfter.isActive =
             IF FedEqual THEN TRUE
             ELSE IF Raised(states') /\ AnyLimb(FedExpected) THEN FALSE
             ELSE FedBefore.isActive]_vars

\* C27 witness: the idle pose matched an idle frame and isActive is true.
C27_Witness ==
    /\ cursor >= 1
    /\ states # NoPose
    /\ ~AnyLimb(states)
    /\ Len(enemies[1].frames) = 1
    /\ ~AnyLimb(enemies[1].frames[1])
    /\ Matcher("enemy1").lastMatchFrame = cursor
    /\ Matcher("enemy1").isActive

-----------------------------------------------------------------------------
\* Claims about the methods of a matcher, called one at a time.

Called(method) == cursor' = cursor + 1 /\ returned'.call = method

\* C24: between resets cyclesCompleted never decreases: an advancePosition
\* call that takes matchPosition from N-1 to 0 adds one to it, every other
\* advancePosition call and every updateMatch call leave it unchanged, and
\* only reset() lowers it.
C24_CyclesCountWraps ==
    [][/\ Called("advancePosition") =>
            FedAfter.cyclesCompleted =
                IF FedBefore.matchPosition = Len(enemies[1].frames) - 1
                   /\ FedAfter.matchPosition = 0
                THEN FedBefore.cyclesCompleted + 1
                ELSE FedBefore.cyclesCompleted
       /\ Called("updateMatch") => FedAfter.cyclesCompleted = FedBefore.cyclesCompleted
       /\ FedAfter.cyclesCompleted < FedBefore.cyclesCompleted => Called("reset")]_vars

\* C24 witness: two advancePosition calls on a two-frame sequence, the first
\* of which moved on and the second wrapped, have counted one cycle.
C24_Witness ==
    /\ cursor = 3
    /\ returned.call = "advancePosition"
    /\ Len(enemies[1].frames) = 2
    /\ Matcher("enemy1").matchPosition = 0
    /\ Matcher("enemy1").cyclesCompleted = 1
    /\ Matcher("enemy1").confidenceScore > 0

\* The lowest index whose reference frame has a limb raised and the limbs of
\* the pose, or -1.
LowestActiveEqual(sequence, playerState) ==
    LET found == { i \in 0..(Len(sequence) - 1) :
                     /\ AnyLimb(sequence[i + 1])
                     /\ playerState # NoPose
                     /\ Limbs(sequence[i + 1]) = Limbs(playerState) }
    IN  IF found = {} THEN -1 ELSE CHOOSE i \in found : \A j \in found : i <= j

\* C28: findBestStartingPosition(p) returns the lowest index whose reference
\* frame is active and structurally equal to p, -1 when there is none, -1
\* for every idle or missing p, and leaves the matcher as it was.
C28_FindReturnsLowestActiveIndex ==
    [][Called("findBestStartingPosition") =>
         /\ returned'.value = LowestActiveEqual(enemies[1].frames, states')
         /\ ~Raised(states') => returned'.value = -1
         /\ FedAfter = FedBefore]_vars

\* C28 witness: the search was called for a pose that both frames of the
\* sequence hold, with the matcher at position 1, and returned index 0.
C28_Witness ==
    /\ returned.call = "findBestStartingPosition"
    /\ returned.value = 0
    /\ Len(enemies[1].frames) = 2
    /\ enemies[1].frames[1] = enemies[1].frames[2]
    /\ Matcher("enemy1").matchPosition = 1

\* The scores max(0, c - d) can give.
Lowered(c, d) == { Max(0, x) : x \in FloatAdd(c, -d) }

\* C29: updateMatch changes the confidence by the amount of its case: to
\* min(1, c + CONFIDENCE_MATCH) on structural equality, to
\* max(0, c - CONFIDENCE_DECAY_ACTIVE) when both poses are active and differ,
\* to max(0, c - CONFIDENCE_DECAY_MIXED) when exactly one is active; and it
\* changes neither matchPosition nor cyclesCompleted.
C29_ConfidenceChangeByCase ==
    [][Called("updateMatch") =>
         /\ FedEqual =>
              FedAfter.confidenceScore \in
                  { Min(One, x) : x \in FloatAdd(FedBefore.confidenceScore, CONFIDENCE_MATCH) }
         /\ ~FedEqual /\ Raised(states') /\ AnyLimb(FedExpected) =>
              FedAfter.confidenceScore \in
                  Lowered(FedBefore.confidenceScore, CONFIDENCE_DECAY_ACTIVE)
         /\ Raised(states') # AnyLimb(FedExpected) =>
              FedAfter.confidenceScore \in
                  Lowered(FedBefore.confidenceScore, CONFIDENCE_DECAY_MIXED)
         /\ FedAfter.matchPosition = FedBefore.matchPosition
         /\ FedAfter.cyclesCompleted = FedBefore.cyclesCompleted]_vars

\* C29 witness: a match, a jitter frame and a mismatch in a row have taken the
\* score from 0 to 0.25, near 0.15 and back to 0, at the same position.
C29_Witness ==
    /\ cursor = 3
    /\ returned = [call |-> "updateMatch", value |-> FALSE]
    /\ Matcher("enemy1").confidenceScore = 0
    /\ Matcher("enemy1").lastMatchFrame = 1
    /\ Matcher("enemy1").matchPosition = 0

-----------------------------------------------------------------------------
\* Claims about the grace counter.

\* C30: while an enemy is confirmed, graceFrames counts the most recent
\* consecutive ticks whose quality after the update was not above
\* QUALITY_THRESHOLD_CONFIRM: it is 0 at the promotion, a tick with the
\* quality above the threshold sets it back to 0 and keeps the confirmation,
\* any other tick adds one to it, and the confirmation is cleared on exactly
\* the tick that takes the count to gracePeriod.
C30_GraceCountsLowQualityTicks ==
    [][/\ (Arbitrated /\ confirmedMatchEnemy # null) =>
            /\ arbitration'.bestEnemy = confirmedMatchEnemy
            /\ graceFrames < gracePeriod
            /\ arbitration'.bestMatchQuality > QUALITY_THRESHOLD_CONFIRM =>
                  graceFrames' = 0 /\ confirmedMatchEnemy' = confirmedMatchEnemy
            /\ arbitration'.bestMatchQuality <= QUALITY_THRESHOLD_CONFIRM =>
                  /\ graceFrames' = graceFrames + 1
                  /\ confirmedMatchEnemy' \in {confirmedMatchEnemy, null}
                  /\ confirmedMatchEnemy' = null <=> graceFrames' = gracePeriod
       /\ (Arbitrated /\ confirmedMatchEnemy = null /\ confirmedMatchEnemy' # null) =>
            graceFrames' = 0
       /\ frameNumber' = frameNumber =>
            graceFrames' = graceFrames /\ confirmedMatchEnemy' = confirmedMatchEnemy]_vars

\* C30 witness: the confirmed matcher accepted the tick's pose, yet its
\* quality is not above the threshold and the tick was counted.
C30_Witness ==
    /\ confirmedMatchEnemy # null
    /\ gracePeriod = 2
    /\ graceFrames = 1
    /\ arbitration.matched
    /\ arbitration.bestMatchQuality <= QUALITY_THRESHOLD_CONFIRM
    /\ arbitration.bestMatchQuality > 0

-----------------------------------------------------------------------------
\* Claims about the order of a frame.

\* The step of a frame that goes from one place to the next.
FrameStep(from, to) == pc = from /\ pc' = to

\* C25: within every frame the player's pose update and history recording
\* come first, then the frame counters, then the matcher update and the
\* arbitrator's decision, then the rendering, each once per frame; no key
\* handler runs while a frame is under way; and the pose the matchers are
\* given is the entry recordMove pushed last on moveHistory in that frame.
C25_FrameOrder ==
    [][/\ pc' # pc =>
            \/ FrameStep("idle", "updated") \/ FrameStep("updated", "counted")
            \/ FrameStep("counted", "matched") \/ FrameStep("matched", "idle")
       /\ FrameStep("idle", "updated") =>
            returned'.call = "recordMove" /\ returned'.value = states'
       /\ (moveHistoryLength' # moveHistoryLength \/ returned' # returned) =>
            FrameStep("idle", "updated")
       /\ FrameStep("updated", "counted") <=> frameNumber' = frameNumber + 1
       /\ FrameStep("updated", "counted") <=> frameCounter' = frameCounter + 1
       /\ <<sequenceMatchers, currentMatchingEnemy, confirmedMatchEnemy, graceFrames,
            bodyColor, arbitration>>' #
          <<sequenceMatchers, currentMatchingEnemy, confirmedMatchEnemy, graceFrames,
            bodyColor, arbitration>> => FrameStep("counted", "matched")
       /\ pc # "idle" => states' = states /\ pc' # pc
       /\ FrameStep("counted", "matched") =>
            /\ returned.call = "recordMove"
            /\ returned.value = states
            /\ moveHistoryLength >= WarmUp =>
                  \A id \in DOMAIN shown' :
                      shown'[id] =
                          (shown[id] \/ \E i \in 1..Len(EnemyById(id).frames) :
                                           /\ AnyLimb(EnemyById(id).frames[i])
                                           /\ Limbs(EnemyById(id).frames[i])
                                                = Limbs(returned.value))]_vars

\* C25 witness: the frame has run its matcher update and waits to be
\* rendered; the key pressed before the frame raised the left arm, which is
\* the pose recordMove pushed and the pose the matcher accepted.
C25_Witness ==
    /\ pc = "matched"
    /\ frameNumber > WarmUp
    /\ returned.call = "recordMove"
    /\ returned.value = LeftArm
    /\ arbitration.matched
    /\ currentMatchingEnemy = "enemy1"

-----------------------------------------------------------------------------
\* Claims about the candidate that is building and about the search.

\* The tick starts with a candidate that is not confirmed.
Building == confirmedMatchEnemy = null /\ currentMatchingEnemy # null

\* The tick starts with no candidate at all.
Searching == confirmedMatchEnemy = null /\ currentMatchingEnemy = null

\* C31: an unconfirmed candidate has no grace period: on a tick that starts
\* in the building state, if the tracked matcher's quality after the update
\* is not above QUALITY_THRESHOLD_BUILD, then after the tick there is no
\* current candidate, still no confirmed one, graceFrames is what it was and
\* the colour is the original one.
C31_NoGraceWhileBuilding ==
    [][(Arbitrated /\ Building
          /\ sequenceMatchers'[currentMatchingEnemy].confidenceScore
               <= QUALITY_THRESHOLD_BUILD) =>
         /\ currentMatchingEnemy' = null
         /\ confirmedMatchEnemy' = null
         /\ graceFrames' = graceFrames
         /\ bodyColor' = originalColor]_vars

\* C31 witness: the tick updated a building candidate, which rejected the
\* pose; its quality fell to the threshold or below and it was dropped, its
\* matcher left where it stood.
C31_Witness ==
    /\ arbitration.bestEnemy # null
    /\ arbitration.hits = {}
    /\ confirmedMatchEnemy = null
    /\ currentMatchingEnemy = null
    /\ bodyColor = originalColor
    /\ ~arbitration.matched
    /\ Matcher(arbitration.bestEnemy).matchPosition = 1
    /\ Matcher(arbitration.bestEnemy).confidenceScore <= QUALITY_THRESHOLD_BUILD

\* The lowest index at which the enemy's sequence holds the pose as an
\* active frame, or -1.
StartOf(id, playerState) == LowestActiveEqual(EnemyById(id).frames, playerState)

\* C32: on a search tick every matcher whose sequence yields a start
\* position s, selected or not, ends the tick with confidenceScore =
\* CONFIDENCE_MATCH, matchPosition = (s + 1) mod N and cyclesCompleted = 1 if
\* s = N - 1 and 0 otherwise, and every other matcher is left as it was.
C32_SearchSeedsEveryHit ==
    [][(Arbitrated /\ Searching) =>
         \A id \in EnemyIds :
             LET s == StartOf(id, states')
                 N == SequenceLength(id)
                 m == sequenceMatchers'[id]
             IN  IF s # -1
                 THEN /\ m.confidenceScore = CONFIDENCE_MATCH
                      /\ m.matchPosition = (s + 1) % N
                      /\ m.cyclesCompleted = IF s = N - 1 THEN 1 ELSE 0
                 ELSE m = InitMatchers(sequenceMatchers)[id]]_vars

\* C32 witness: the search seeded both matchers; the one that was not
\* selected started at the last index of its sequence and has wrapped.
C32_Witness ==
    /\ arbitration.hits = EnemyIds
    /\ arbitration.bestEnemy = "enemy1"
    /\ SequenceLength("enemy2") = 2
    /\ Matcher("enemy2").matchPosition = 0
    /\ Matcher("enemy2").cyclesCompleted = 1
    /\ Matcher("enemy2").confidenceScore = CONFIDENCE_MATCH
    /\ Matcher("enemy2").lastMatchFrame = frameCounter

-----------------------------------------------------------------------------
\* Claims about the move history.

\* The poses the history reads as, oldest first.
Entries == [i \in 1..Len(moveHistory) |-> Read(moveHistory[i])]

\* C33: moveHistory is a bounded first-in first-out log: after t player
\* updates it holds min(t, MAX_HISTORY_LENGTH) entries; an update puts the
\* pose of that update last and keeps the entries before it in their order,
\* dropping the oldest one once the log is full; and a later change of the
\* live pose alters no entry.
C33_HistoryBoundedFifo ==
    [][/\ Len(moveHistory') = Min(cursor', MAX_HISTORY_LENGTH)
       /\ moveHistoryLength' = Len(moveHistory')
       /\ cursor' = cursor + 1 =>
            LET evicted == IF Len(moveHistory) = MAX_HISTORY_LENGTH THEN 1 ELSE 0
            IN  /\ Entries'[Len(moveHistory')] = states'
                /\ \A i \in 1..(Len(moveHistory') - 1) : Entries'[i] = Entries[i + evicted]
       /\ cursor' = cursor => Entries' = Entries]_vars

\* C33 witness: the history is full and has dropped the entry of the first
\* update; its two oldest entries differ, and the live pose has changed
\* since the last entry was recorded.
C33_Witness ==
    /\ cursor = MAX_HISTORY_LENGTH + 1
    /\ Len(moveHistory) = MAX_HISTORY_LENGTH
    /\ Entries[1] # Entries[2]
    /\ Entries[MAX_HISTORY_LENGTH] # states

-----------------------------------------------------------------------------
\* Claims about the two candidate fields and the grace counter.

\* C34: the tracked identity never goes from one enemy straight to another:
\* across a step confirmedMatchEnemy changes only from null to an enemy or
\* from an enemy to null, and so does currentMatchingEnemy; an enemy is
\* newly selected only on a tick that starts with no candidate tracked.
C34_NoDirectSwitch ==
    [][/\ confirmedMatchEnemy' # confirmedMatchEnemy =>
            (confirmedMatchEnemy = null \/ confirmedMatchEnemy' = null)
       /\ currentMatchingEnemy' # currentMatchingEnemy =>
            (currentMatchingEnemy = null \/ currentMatchingEnemy' = null)
       /\ (currentMatchingEnemy' # currentMatchingEnemy /\ currentMatchingEnemy' # null) =>
            (Arbitrated /\ Searching)
       /\ (confirmedMatchEnemy' # null /\ currentMatchingEnemy # null) =>
            confirmedMatchEnemy' = currentMatchingEnemy]_vars

\* C34 witness: the second enemy is the candidate, selected by this tick's
\* search, while the first enemy's matcher still holds what an earlier
\* tracking attempt left in it.
C34_Witness ==
    /\ currentMatchingEnemy = "enemy2"
    /\ arbitration.hits = {"enemy2"}
    /\ "enemy1" \in DOMAIN sequenceMatchers
    /\ Matcher("enemy1").lastMatchFrame # NegInfinity
    /\ Matcher("enemy1").lastMatchFrame < frameCounter - 1

\* C35: in every state between ticks, a confirmed enemy is also the current
\* candidate.
C35_ConfirmedIsCurrent ==
    confirmedMatchEnemy # null => currentMatchingEnemy = confirmedMatchEnemy

\* C35 witness: the confirmed enemy's matcher rejected the pose and the grace
\* period has begun; the enemy is still the current candidate as well.
C35_Witness ==
    /\ confirmedMatchEnemy # null
    /\ currentMatchingEnemy = confirmedMatchEnemy
    /\ SequenceLength(confirmedMatchEnemy) = 2
    /\ mismatchRun = 1
    /\ graceFrames = 1

\* C36: in every state between ticks in which a candidate is building, its
\* matcher has cyclesCompleted = 0 and a confidenceScore above
\* QUALITY_THRESHOLD_BUILD.
C36_BuildingHasNoCycleAndQuality ==
    (currentMatchingEnemy # null /\ confirmedMatchEnemy = null) =>
        /\ Matcher(currentMatchingEnemy).cyclesCompleted = 0
        /\ Matcher(currentMatchingEnemy).confidenceScore > QUALITY_THRESHOLD_BUILD

\* C36 witness: a candidate is building, at the second frame of its
\* sequence, the other enemy's matcher having wrapped in the same search.
C36_Witness ==
    /\ currentMatchingEnemy # null
    /\ confirmedMatchEnemy = null
    /\ Matcher(currentMatchingEnemy).matchPosition = 1
    /\ \E id \in DOMAIN sequenceMatchers :
          id # currentMatchingEnemy /\ Matcher(id).cyclesCompleted = 1

\* C37: graceFrames is within 0..gracePeriod in every state and below
\* gracePeriod whenever an enemy is confirmed, and it changes only on ticks
\* that start with a confirmed enemy or that confirm one.
C37_GraceCounterRange ==
    [][/\ 0 <= graceFrames' /\ graceFrames' <= gracePeriod'
       /\ confirmedMatchEnemy' # null => graceFrames' < gracePeriod'
       /\ graceFrames' # graceFrames =>
            (Arbitrated /\ (confirmedMatchEnemy # null \/ confirmedMatchEnemy' # null))]_vars

\* C37 witness: the grace period ran out, the counter stands at gracePeriod,
\* and a new candidate is building without the counter having moved.
C37_Witness ==
    /\ graceFrames = gracePeriod
    /\ confirmedMatchEnemy = null
    /\ currentMatchingEnemy # null

-----------------------------------------------------------------------------
\* Claims about the idle frames.

-----------------------------------------------------------------------------
\* Claims about the player who stops imitating.

\* The arbitrator's state with the fields dropped that no decision about a
\* confirmed enemy reads.
Arbitrator(t) ==
    [matchers |-> [id \in DOMAIN t.matchers |->
                      [t.matchers[id] EXCEPT !.lastMatchFrame = NegInfinity,
                                             !.cyclesCompleted = 0,
                                             !.isActive = FALSE]],
     current |-> t.current, confirmed |-> t.confirmed, grace |-> t.grace,
     color |-> t.color]

\* The arbitrator's state as it is now.
ArbitratorNow ==
    Arbitrator([matchers |-> InitMatchers(sequenceMatchers),
                current |-> currentMatchingEnemy, confirmed |-> confirmedMatchEnemy,
                grace |-> graceFrames, color |-> bodyColor])

\* The states one tick with the idle pose leads to from the states of from,
\* those that keep an enemy confirmed.
IdleTick(from) ==
    { t \in UNION { { Arbitrator(r.t) :
                      r \in checkPlayerMatches(st.matchers, st.current, st.confirmed,
                                               st.grace, gracePeriod, st.color, Idle,
                                               frameCounter + 1) } : st \in from } :
        t.confirmed # null }

RECURSIVE IdleTicksClear(_, _)
\* Every run of ticks with the idle pose from the states of from clears the
\* confirmation: tick by tick, the set of states still confirmed empties; if
\* a set comes back, some run keeps the enemy confirmed for ever.
IdleTicksClear(from, before) ==
    IF from = {} THEN TRUE
    ELSE IF from \in before THEN FALSE
    ELSE IdleTicksClear(IdleTick(from), before \cup {from})

\* Jitter frames a confidence of 1 takes without falling to
\* QUALITY_THRESHOLD_CONFIRM.
JitterSlack == (One - QUALITY_THRESHOLD_CONFIRM) \div CONFIDENCE_DECAY_MIXED

\* The enemy's sequence, taken as a cycle, has length consecutive active
\* frames.
HasActiveRun(id, length) ==
    LET frames == EnemyById(id).frames
    IN  \E i \in 1..Len(frames) :
            \A j \in 0..(length - 1) : AnyLimb(frames[((i - 1 + j) % Len(frames)) + 1])

\* C39 as stated: for every reference sequence with at least one active
\* frame, once its enemy is confirmed, a player whose pose is idle on every
\* later tick eventually loses the confirmation.
C39_IdlePlayerLosesDisguise ==
    (confirmedMatchEnemy # null /\ HasActiveRun(confirmedMatchEnemy, 1)) =>
        IdleTicksClear({ArbitratorNow}, {})

\* C39 amended: for every reference sequence with a run of at least
\* gracePeriod + 6 consecutive active frames, once its enemy is confirmed, a
\* player whose pose is idle on every later tick eventually loses the
\* confirmation.
C39_IdlePlayerLosesLongRunDisguise ==
    (confirmedMatchEnemy # null
       /\ HasActiveRun(confirmedMatchEnemy, gracePeriod + JitterSlack)) =>
        IdleTicksClear({ArbitratorNow}, {})

\* C39 witness: an enemy whose sequence has such a run is confirmed at full
\* confidence, the grace counter at 0, the matcher at the start of the run.
C39_Witness ==
    /\ confirmedMatchEnemy = "enemy1"
    /\ HasActiveRun("enemy1", gracePeriod + JitterSlack)
    /\ ~HasActiveRun("enemy1", Len(enemies[1].frames))
    /\ Matcher("enemy1").confidenceScore = One
    /\ graceFrames = 0
    /\ AnyLimb(enemies[1].frames[Matcher("enemy1").matchPosition + 1])
    /\ IdleTick({ArbitratorNow}) # {}

====
